---------------------------- MODULE Spec2Model ----------------------------
(***************************************************************************)
(* PerformanceAnalyzer (performance-analyzer.js, kept as                   *)
(* src/unnamed/part_001): URL-keyed start/end event store, the matcher     *)
(* with its estimation fallback, the summary and the duplicate detector,   *)
(* and the analyzeFile flow that drives them.                              *)
(*                                                                         *)
(* Conventions of the model                                                *)
(*  - a timestamp is an integer number of milliseconds; every falsy        *)
(*    JavaScript value a timestamp can take (null, NaN, 0, undefined) is   *)
(*    0, because every caller only tests its truthiness;                   *)
(*  - an absent or empty string field is "", an absent numeric duration    *)
(*    is 0: the code tests those fields by truthiness too;                 *)
(*  - a raw timestamp value is [form, ms]: the lexical form decides which  *)
(*    branch of parseTimestamp handles it, ms is the instant it denotes;   *)
(*  - a URL is one of a fixed universe of strings; the substring tests of  *)
(*    getResourceType are answered from the table UrlMarkers;              *)
(*  - the resource types printed in Chinese by the program are written     *)
(*    Font, Image, HTMLPage and Other.                                     *)
(***************************************************************************)
EXTENDS Integers, Sequences, FiniteSets, TLC

VARIABLES
    urlRequests,        \* this.urlRequests: the Map, as a sequence in insertion order
    completedRequests,  \* this.completedRequests
    pc,                 \* the position of analyzeFile
    jsonData,           \* the elements of jsonData that forEach has handed to processJsonEntry
    preprocessed,       \* completedRequests as ingestion left it (analyzeFile logs its length)
    finalizeRuns,       \* the number of calls of finalizeAnalysis so far
    report,             \* the report generateReport returned last
    replay,             \* a second analyzer instance, fed the same entries in another order
    scorecard,          \* the sub-scores, score and grade printReport printed last
    lastCall,           \* the number of direct calls of addUrlEvent and the arguments of the last
    parseCalls,         \* the direct calls of parseTimestamp: input and returned value
    results,            \* this.results of the website tester
    requestStartTimes,  \* requestStartTimes of one testWebsite call: the start recorded per URL, 0 for none
    network,            \* testResult.network of that call
    browser,            \* the page of that call: its clock, the requests it has sent, the handlers under way
    batch               \* the position of testMultipleWebsites and its local results

vars == <<urlRequests, completedRequests, pc, jsonData, preprocessed, finalizeRuns,
          report, replay, scorecard, lastCall, parseCalls, results, requestStartTimes,
          network, browser, batch>>

-----------------------------------------------------------------------------
(* Bounds *)

MaxEntries == 4
MaxReplayEntries == 3
MaxMalformedEntries == 3
MaxStoreCalls == 3
MaxEnvelopeEntries == 2
MaxParseCalls == 2
MaxDirectEntries == 3
MaxTopEntries == 3
MaxReports == 2

(* Program constants *)

MaxRequestDuration == 60000
PreflightShortLimit == 500
DefaultOtherDuration == 500
DefaultTopN == 20

-----------------------------------------------------------------------------
(* Generic helpers used by the translations below *)

Range(s) == { s[i] : i \in 1..Len(s) }

RECURSIVE SumSeq(_)
SumSeq(s) == IF s = <<>> THEN 0 ELSE Head(s) + SumSeq(Tail(s))

RECURSIVE MaxSeq(_)
MaxSeq(s) == IF Len(s) = 1 THEN s[1]
             ELSE LET m == MaxSeq(Tail(s)) IN IF s[1] >= m THEN s[1] ELSE m

RECURSIVE MinSeq(_)
MinSeq(s) == IF Len(s) = 1 THEN s[1]
             ELSE LET m == MinSeq(Tail(s)) IN IF s[1] <= m THEN s[1] ELSE m

(* Math.round(n / d) for d > 0: the nearest integer, a tie going up *)
MathRound(n, d) == (2 * n + d) \div (2 * d)

(* Number.prototype.toFixed applied to n / d for d > 0: the nearest       *)
(* integer, a tie going away from zero                                    *)
ToFixedRound(n, d) == IF n >= 0 THEN (2 * n + d) \div (2 * d)
                      ELSE 0 - ((2 * (0 - n) + d) \div (2 * d))

(* Array.prototype.sort((a, b) => a - b) on numbers *)
RECURSIVE InsertAsc(_, _)
InsertAsc(x, s) == IF s = <<>> THEN <<x>>
                   ELSE IF x < Head(s) THEN <<x>> \o s
                   ELSE <<Head(s)>> \o InsertAsc(x, Tail(s))

(* the array left in arrival order: no sort *)
SortAscArrivalOrder(s) == s

RECURSIVE SortAsc(_)
SortAsc(s) == IF s = <<>> THEN <<>>
              ELSE InsertAsc(s[Len(s)], SortAsc(SubSeq(s, 1, Len(s) - 1)))

(* Array.prototype.sort((a, b) => b.duration - a.duration): stable *)
RECURSIVE InsertByDurationDesc(_, _)
InsertByDurationDesc(r, s) ==
    IF s = <<>> THEN <<r>>
    ELSE IF r.duration > Head(s).duration THEN <<r>> \o s
    ELSE <<Head(s)>> \o InsertByDurationDesc(r, Tail(s))

RECURSIVE SortByDurationDesc(_)
SortByDurationDesc(s) ==
    IF s = <<>> THEN <<>>
    ELSE InsertByDurationDesc(s[Len(s)], SortByDurationDesc(SubSeq(s, 1, Len(s) - 1)))

-----------------------------------------------------------------------------
(* Resource classifier *)

UrlJs == "https://x.com/a.js"
UrlApi == "https://x.com/api/users"
UrlPng == "https://x.com/b.png"
UrlApiJs == "https://x.com/api/app.js"
UrlPlain == "https://x.com/data"

Urls == {UrlJs, UrlApi, UrlPng, UrlApiJs, UrlPlain}

(* the substrings tested by getResourceType that each URL contains *)
UrlMarkers(url) ==
    CASE url = UrlJs -> {".js", "http", "."}
      [] url = UrlApi -> {"/api/", "http", "."}
      [] url = UrlPng -> {".png", "http", "."}
      [] url = UrlApiJs -> {".js", "/api/", "http", "."}
      [] url = UrlPlain -> {"http", "."}
      [] OTHER -> {}

Includes(url, marker) == marker \in UrlMarkers(url)

GetResourceType(url) ==
    IF url = "" THEN "Other"
    ELSE IF Includes(url, ".js") THEN "JavaScript"
    ELSE IF Includes(url, ".css") THEN "CSS"
    ELSE IF Includes(url, ".woff") \/ Includes(url, ".woff2") \/ Includes(url, ".ttf")
         THEN "Font"
    ELSE IF Includes(url, ".jpg") \/ Includes(url, ".jpeg") \/ Includes(url, ".png")
            \/ Includes(url, ".webp") \/ Includes(url, ".svg")
         THEN "Image"
    ELSE IF Includes(url, "/api/") \/ Includes(url, "api.") \/ Includes(url, ".com/v")
         THEN "API"
    ELSE IF Includes(url, "polyfill") THEN "Polyfill"
    ELSE IF Includes(url, ".html") \/ Includes(url, "localhost")
            \/ (Includes(url, "http") /\ ~Includes(url, "."))
         THEN "HTMLPage"
    ELSE "Other"

-----------------------------------------------------------------------------
(* Timestamp normalizer *)

AbsentTs == [form |-> "absent", ms |-> 0]
Iso(ms) == [form |-> "iso", ms |-> ms]

(* parseTimestamp: the three regular expressions in order, then the        *)
(* generic Date parser; a value that is not a string has no match method,  *)
(* the TypeError is caught and null is returned                            *)
ParseTimestamp(timeStr) ==
    CASE timeStr.form = "iso" -> timeStr.ms
      [] timeStr.form = "space" -> timeStr.ms
      [] timeStr.form = "digits13" -> timeStr.ms
      [] timeStr.form = "date" -> timeStr.ms
      [] timeStr.form = "number" -> 0
      [] OTHER -> 0

-----------------------------------------------------------------------------
(* Log entries *)

TimeFields == <<"timestamp", "time", "ts", "datetime", "startTime", "date", "receiveTimestamp">>
UrlFields == <<"url", "uri", "path", "request", "resource", "src">>
ActionFields == <<"action", "type", "event", "status", "method">>

(* the decoded content of a textPayload string: kind "none" is an absent   *)
(* or empty field, "json4" and "json3" are JSON arrays of four (or more)   *)
(* and of three elements, "jsonOther" any other JSON value, "text" a       *)
(* string that is not JSON and matches no text pattern, "nonString" an     *)
(* object or array in place of the string, whose string form is not JSON   *)
NoPayload == [kind |-> "none", timestamp |-> AbsentTs, action |-> "", url |-> "", duration |-> 0]

(* an object with none of the fields the analyzer reads *)
EmptyObject ==
    [shape |-> "object", textPayload |-> NoPayload,
     timestamp |-> AbsentTs, time |-> AbsentTs, ts |-> AbsentTs, datetime |-> AbsentTs,
     startTime |-> AbsentTs, date |-> AbsentTs, receiveTimestamp |-> AbsentTs,
     url |-> "", uri |-> "", path |-> "", request |-> "", resource |-> "", src |-> "",
     action |-> "", type |-> "", event |-> "", status |-> "", method |-> "",
     duration |-> 0, loadTime |-> 0, responseTime |-> 0,
     elements |-> NoPayload]

(* {"timestamp": ..., "action": ..., "url": ...} *)
EventObject(t, action, url) ==
    [EmptyObject EXCEPT !.timestamp = t, !.action = action, !.url = url]

(* {"timestamp": ..., "url": ..., "duration": ...} *)
DurationObject(t, url, d) ==
    [EmptyObject EXCEPT !.timestamp = t, !.url = url, !.duration = d]

(* ["<timestamp>", "<action>", <id>, "<url>"] as an element of the input   *)
(* array: a JavaScript array, whose named properties are all undefined     *)
ArrayEntry(t, action, url) ==
    [EmptyObject EXCEPT !.shape = "array",
        !.elements = [kind |-> "json4", timestamp |-> t, action |-> action,
                      url |-> url, duration |-> 0]]

(* {"textPayload": "[\"<timestamp>\",\"<action>\",<id>,\"<url>\"]", "timestamp": ...} *)
PayloadEntry(t, action, url, outer) ==
    [EmptyObject EXCEPT !.timestamp = outer,
        !.textPayload = [kind |-> "json4", timestamp |-> t, action |-> action,
                         url |-> url, duration |-> 0]]

(* entry[field]: only a plain object has the named fields *)
Field(entry, field) ==
    IF entry.shape = "object" THEN entry[field]
    ELSE IF field \in Range(TimeFields) THEN AbsentTs
    ELSE IF field \in {"duration", "loadTime", "responseTime"} THEN 0
    ELSE IF field = "textPayload" THEN NoPayload
    ELSE ""

(* truthiness of a timestamp field and of the textPayload field *)
Truthy(v) == v.form # "absent"

HasPayload(v) == v.kind # "none"

-----------------------------------------------------------------------------
(* Event store *)

HasUrl(requests, url) == \E i \in 1..Len(requests) : requests[i].url = url

UrlIndex(requests, url) == CHOOSE i \in 1..Len(requests) : requests[i].url = url

(* addUrlEvent without the test of the timestamp *)
AddUrlEventAnyTimestamp(requests, url, timestamp, action) ==
    IF url = "" THEN requests
    ELSE LET created ==
                 IF HasUrl(requests, url) THEN requests
                 ELSE Append(requests, [url |-> url, type |-> GetResourceType(url),
                                        startTimes |-> <<>>, endTimes |-> <<>>,
                                        unknownTimes |-> <<>>])
             i == UrlIndex(created, url)
         IN CASE action = "start" ->
                     [created EXCEPT ![i].startTimes = Append(@, timestamp)]
              [] action = "end" ->
                     [created EXCEPT ![i].endTimes = Append(@, timestamp)]
              [] OTHER ->
                     [created EXCEPT ![i].unknownTimes = Append(@, timestamp)]

(* addUrlEvent on the Map `requests` (a sequence in insertion order) *)
AddUrlEvent(requests, url, timestamp, action) ==
    IF url = "" THEN requests
    ELSE IF timestamp = 0 THEN requests
    ELSE LET created ==
                 IF HasUrl(requests, url) THEN requests
                 ELSE Append(requests, [url |-> url, type |-> GetResourceType(url),
                                        startTimes |-> <<>>, endTimes |-> <<>>,
                                        unknownTimes |-> <<>>])
             i == UrlIndex(created, url)
         IN CASE action = "start" ->
                     [created EXCEPT ![i].startTimes = Append(@, timestamp)]
              [] action = "end" ->
                     [created EXCEPT ![i].endTimes = Append(@, timestamp)]
              [] OTHER ->
                     [created EXCEPT ![i].unknownTimes = Append(@, timestamp)]

-----------------------------------------------------------------------------
(* Entry extractor *)

NormalizeAction(action) ==
    IF action = "" THEN "unknown"
    ELSE IF action \in {"+", "start", "begin", "request_start"} THEN "start"
    ELSE IF action \in {"-", "end", "finish", "request_end"} THEN "end"
    ELSE "unknown"

(* the first truthy field of the list, parsed; null when there is none *)
RECURSIVE ExtractTimestampFrom(_, _)
ExtractTimestampFrom(entry, fields) ==
    IF fields = <<>> THEN 0
    ELSE IF Truthy(Field(entry, Head(fields)))
         THEN ParseTimestamp(Field(entry, Head(fields)))
         ELSE ExtractTimestampFrom(entry, Tail(fields))

ExtractTimestamp(entry) == ExtractTimestampFrom(entry, TimeFields)

RECURSIVE FirstString(_, _, _)
FirstString(entry, fields, default) ==
    IF fields = <<>> THEN default
    ELSE IF Field(entry, Head(fields)) # "" THEN Field(entry, Head(fields))
         ELSE FirstString(entry, Tail(fields), default)

ExtractUrl(entry) == FirstString(entry, UrlFields, "")

ExtractAction(entry) == FirstString(entry, ActionFields, "unknown")

(* parseTextPayload and parseTextPayloadAsString: the object read out of   *)
(* the payload, or null (kind "none")                                      *)
ParseTextPayload(textPayload) ==
    CASE textPayload.kind = "json4" ->
             [textPayload EXCEPT !.kind = "parsed", !.duration = 0]
      [] textPayload.kind = "json3" ->
             [textPayload EXCEPT !.kind = "parsed", !.action = ""]
      [] textPayload.kind = "textAction" ->
             [textPayload EXCEPT !.kind = "parsed", !.timestamp = AbsentTs, !.duration = 0]
      [] textPayload.kind = "textTimedAction" ->
             [textPayload EXCEPT !.kind = "parsed", !.duration = 0]
      [] textPayload.kind = "textDuration" ->
             [textPayload EXCEPT !.kind = "parsed", !.timestamp = AbsentTs, !.action = ""]
      [] OTHER -> NoPayload

(* parseTextPayload on a value that is not a string: JSON.parse throws on  *)
(* its string form, the catch block calls parseTextPayloadAsString, and    *)
(* textPayload.match is not a function; nothing catches this TypeError     *)
ParseTextPayloadRaises(textPayload) == textPayload.kind = "nonString"

(* the envelope branch with the outer timestamp tried before the one in    *)
(* the payload                                                             *)
EnvelopeTimestampOuterFirst(entry, parsed) ==
    LET first == IF Truthy(Field(entry, "timestamp"))
                 THEN ParseTimestamp(Field(entry, "timestamp")) ELSE 0
        usePayload == first = 0 /\ Truthy(parsed.timestamp)
        second == IF usePayload THEN ParseTimestamp(parsed.timestamp) ELSE first
        afterPayload == IF usePayload THEN parsed.timestamp ELSE Field(entry, "timestamp")
        useReceive == second = 0 /\ Truthy(Field(entry, "receiveTimestamp"))
    IN IF useReceive THEN Field(entry, "receiveTimestamp") ELSE afterPayload

(* the timestamp the envelope branch of processJsonEntry leaves in parsed  *)
EnvelopeTimestamp(entry, parsed) ==
    LET first == IF Truthy(parsed.timestamp) THEN ParseTimestamp(parsed.timestamp) ELSE 0
        useOuter == first = 0 /\ Truthy(Field(entry, "timestamp"))
        second == IF useOuter THEN ParseTimestamp(Field(entry, "timestamp")) ELSE first
        afterOuter == IF useOuter THEN Field(entry, "timestamp") ELSE parsed.timestamp
        useReceive == second = 0 /\ Truthy(Field(entry, "receiveTimestamp"))
    IN IF useReceive THEN Field(entry, "receiveTimestamp") ELSE afterOuter

(* the object processJsonEntry recurses on *)
ParsedObject(entry, parsed) ==
    [EmptyObject EXCEPT !.timestamp = EnvelopeTimestamp(entry, parsed),
                        !.action = parsed.action, !.url = parsed.url,
                        !.duration = parsed.duration]

(* entry.duration alone, without loadTime and responseTime *)
DirectDurationOnly(entry) == Field(entry, "duration")

(* entry.duration || entry.loadTime || entry.responseTime; a truthy value  *)
(* that is not a positive number is written as a negative one              *)
DirectDuration(entry) ==
    IF Field(entry, "duration") # 0 THEN Field(entry, "duration")
    ELSE IF Field(entry, "loadTime") # 0 THEN Field(entry, "loadTime")
    ELSE Field(entry, "responseTime")

(* processJsonEntry without its timestamp guard: a record is accepted      *)
(* whether or not a timestamp could be extracted                           *)
ProcessFlatEntryAnyTimestamp(entry, requests, completed) ==
    LET timestamp == ExtractTimestamp(entry)
        url == ExtractUrl(entry)
        action == ExtractAction(entry)
        duration == DirectDuration(entry)
    IN IF url = "" THEN <<requests, completed>>
       ELSE IF duration > 0
            THEN <<requests,
                   Append(completed, [url |-> url, startTime |-> timestamp,
                                      endTime |-> timestamp + duration,
                                      duration |-> duration,
                                      type |-> GetResourceType(url),
                                      estimated |-> FALSE])>>
       ELSE <<AddUrlEvent(requests, url, timestamp, NormalizeAction(action)), completed>>

(* processJsonEntry below the envelope branch: the new <<urlRequests,      *)
(* completedRequests>>                                                     *)
ProcessFlatEntry(entry, requests, completed) ==
    LET timestamp == ExtractTimestamp(entry)
        url == ExtractUrl(entry)
        action == ExtractAction(entry)
        duration == DirectDuration(entry)
    IN IF timestamp = 0 THEN <<requests, completed>>
       ELSE IF url = "" THEN <<requests, completed>>
       ELSE IF duration > 0
            THEN <<requests,
                   Append(completed, [url |-> url, startTime |-> timestamp,
                                      endTime |-> timestamp + duration,
                                      duration |-> duration,
                                      type |-> GetResourceType(url),
                                      estimated |-> FALSE])>>
       ELSE <<AddUrlEvent(requests, url, timestamp, NormalizeAction(action)), completed>>

(* processJsonEntry *)
ProcessJsonEntry(entry, requests, completed) ==
    IF entry.shape \notin {"object", "array"} THEN <<requests, completed>>
    ELSE IF HasPayload(Field(entry, "textPayload"))
            /\ ParseTextPayload(Field(entry, "textPayload")) # NoPayload
         THEN ProcessFlatEntry(
                  ParsedObject(entry, ParseTextPayload(Field(entry, "textPayload"))),
                  requests, completed)
    ELSE ProcessFlatEntry(entry, requests, completed)

(* processJsonEntry exits by an exception *)
ProcessJsonEntryRaises(entry) ==
    /\ entry.shape \in {"object", "array"}
    /\ HasPayload(Field(entry, "textPayload"))
    /\ ParseTextPayloadRaises(Field(entry, "textPayload"))

-----------------------------------------------------------------------------
(* Matcher *)

(* endTimes.find(...) without the test endTime > startTime *)
RECURSIVE FindUnusedEndTime(_, _, _)
FindUnusedEndTime(endTimes, startTime, usedEndTimes) ==
    IF endTimes = <<>> THEN 0
    ELSE IF /\ Head(endTimes) \notin usedEndTimes
            /\ Head(endTimes) - startTime < MaxRequestDuration
         THEN Head(endTimes)
         ELSE FindUnusedEndTime(Tail(endTimes), startTime, usedEndTimes)

(* endTimes.find(...): the first end after the start, not yet used and     *)
(* inside the window; 0 when find returns undefined                        *)
RECURSIVE FindMatchingEndTime(_, _, _)
FindMatchingEndTime(endTimes, startTime, usedEndTimes) ==
    IF endTimes = <<>> THEN 0
    ELSE IF /\ Head(endTimes) > startTime
            /\ Head(endTimes) \notin usedEndTimes
            /\ Head(endTimes) - startTime < MaxRequestDuration
         THEN Head(endTimes)
         ELSE FindMatchingEndTime(Tail(endTimes), startTime, usedEndTimes)

(* strategy 1 without usedEndTimes.add: an end stays available after it    *)
(* has been paired                                                         *)
RECURSIVE PairStartTimesReusingEnds(_, _, _, _, _)
PairStartTimesReusingEnds(urlData, startTimes, endTimes, usedEndTimes, completed) ==
    IF startTimes = <<>> THEN completed
    ELSE LET startTime == Head(startTimes)
             matchingEndTime == FindMatchingEndTime(endTimes, startTime, usedEndTimes)
         IN IF matchingEndTime # 0
            THEN PairStartTimesReusingEnds(urlData, Tail(startTimes), endTimes,
                     usedEndTimes,
                     Append(completed, [url |-> urlData.url, startTime |-> startTime,
                                        endTime |-> matchingEndTime,
                                        duration |-> matchingEndTime - startTime,
                                        type |-> urlData.type, estimated |-> FALSE]))
            ELSE PairStartTimesReusingEnds(urlData, Tail(startTimes), endTimes,
                                           usedEndTimes, completed)

(* strategy 1: startTimes.forEach, pushing one request per start that      *)
(* finds an end                                                            *)
RECURSIVE PairStartTimes(_, _, _, _, _)
PairStartTimes(urlData, startTimes, endTimes, usedEndTimes, completed) ==
    IF startTimes = <<>> THEN completed
    ELSE LET startTime == Head(startTimes)
             matchingEndTime == FindMatchingEndTime(endTimes, startTime, usedEndTimes)
         IN IF matchingEndTime # 0
            THEN PairStartTimes(urlData, Tail(startTimes), endTimes,
                     usedEndTimes \cup {matchingEndTime},
                     Append(completed, [url |-> urlData.url, startTime |-> startTime,
                                        endTime |-> matchingEndTime,
                                        duration |-> matchingEndTime - startTime,
                                        type |-> urlData.type, estimated |-> FALSE]))
            ELSE PairStartTimes(urlData, Tail(startTimes), endTimes, usedEndTimes,
                                completed)

(* strategy 2: the starts for which no completed request of the URL has    *)
(* this start time                                                         *)
Unpaired(url, startTimes, completed) ==
    LET NoRequest(startTime) ==
            ~\E i \in 1..Len(completed) :
                completed[i].url = url /\ completed[i].startTime = startTime
    IN SelectSeq(startTimes, NoRequest)

DefaultDuration(type) ==
    CASE type = "JavaScript" -> 800
      [] type = "CSS" -> 300
      [] type = "API" -> 1200
      [] type = "Image" -> 500
      [] type = "Font" -> 400
      [] type = "HTMLPage" -> 600
      [] OTHER -> DefaultOtherDuration

GetAverageDurationForType(completed, type) ==
    LET SameType(req) == req.type = type /\ ~req.estimated
        sameTypeRequests == SelectSeq(completed, SameType)
        totalDuration == SumSeq([i \in 1..Len(sameTypeRequests) |->
                                     sameTypeRequests[i].duration])
    IN IF Len(sameTypeRequests) = 0 THEN DefaultDuration(type)
       ELSE MathRound(totalDuration, Len(sameTypeRequests))

Estimate(urlData, unpaired, avgDuration) ==
    [i \in 1..Len(unpaired) |->
        [url |-> urlData.url, startTime |-> unpaired[i],
         endTime |-> unpaired[i] + avgDuration, duration |-> avgDuration,
         type |-> urlData.type, estimated |-> TRUE]]

(* the guard of the estimation block *)
EstimationApplies(unpaired, completed) == Len(unpaired) > 0 /\ Len(completed) > 0

(* matchUrlEvents without the sort of the timeline arrays *)
MatchUrlEventsUnsorted(urlData, completed) ==
    LET paired == PairStartTimes(urlData, urlData.startTimes, urlData.endTimes, {},
                                 completed)
        unpaired == Unpaired(urlData.url, urlData.startTimes, paired)
    IN IF EstimationApplies(unpaired, paired)
       THEN paired \o Estimate(urlData, unpaired,
                               GetAverageDurationForType(paired, urlData.type))
       ELSE paired

(* matchUrlEvents: the completed-request list after the call *)
MatchUrlEvents(urlData, completed) ==
    LET startTimes == SortAsc(urlData.startTimes)
        endTimes == SortAsc(urlData.endTimes)
        paired == PairStartTimes(urlData, startTimes, endTimes, {}, completed)
        unpaired == Unpaired(urlData.url, startTimes, paired)
    IN IF EstimationApplies(unpaired, paired)
       THEN paired \o Estimate(urlData, unpaired,
                               GetAverageDurationForType(paired, urlData.type))
       ELSE paired

(* matchUrlEvents sorts the three arrays of the timeline in place *)
SortedUrlData(urlData) ==
    [urlData EXCEPT !.startTimes = SortAsc(@), !.endTimes = SortAsc(@),
                    !.unknownTimes = SortAsc(@)]

(* urlRequests.forEach(matchUrlEvents), in the insertion order of the Map *)
RECURSIVE MatchAll(_, _)
MatchAll(requests, completed) ==
    IF requests = <<>> THEN completed
    ELSE MatchAll(Tail(requests), MatchUrlEvents(Head(requests), completed))

(* finalizeAnalysis that reads the end events of a timeline without start  *)
(* events as its starts                                                    *)
FinalizeAnalysisEndsAsStarts(requests, completed) ==
    SortByDurationDesc(
        MatchAll([i \in 1..Len(requests) |->
                     IF requests[i].startTimes = <<>>
                     THEN [requests[i] EXCEPT !.startTimes = requests[i].endTimes]
                     ELSE requests[i]],
                 completed))

(* finalizeAnalysis: the completed-request list it leaves *)
FinalizeAnalysis(requests, completed) == SortByDurationDesc(MatchAll(requests, completed))

-----------------------------------------------------------------------------
(* Aggregator *)

Durations(completed) == [i \in 1..Len(completed) |-> completed[i].duration]

(* (actualTotalTime / cumulativeTime * 100).toFixed(1): the ratio itself   *)
(* instead of its complement                                               *)
ParallelEfficiencyRatio(actualTotalTime, cumulativeTime) ==
    IF actualTotalTime > 0
    THEN ToFixedRound(1000 * actualTotalTime, cumulativeTime)
    ELSE 0

(* ((1 - actualTotalTime / cumulativeTime) * 100).toFixed(1), in tenths of *)
(* a percent                                                               *)
ParallelEfficiency(actualTotalTime, cumulativeTime) ==
    IF actualTotalTime > 0
    THEN ToFixedRound(1000 * (cumulativeTime - actualTotalTime), cumulativeTime)
    ELSE 0

(* generateSummary with the wall-clock span taken from the earliest to the *)
(* latest start                                                            *)
GenerateSummaryStartSpan(requests, completed) ==
    IF Len(completed) = 0
    THEN [totalUrls |-> Len(requests), completedRequests |-> 0, estimatedRequests |-> 0,
          averageTime |-> 0, maxTime |-> 0, minTime |-> 0, cumulativeTime |-> 0,
          actualTotalTime |-> 0, hasParallelEfficiency |-> FALSE,
          parallelEfficiency |-> 0]
    ELSE LET durations == Durations(completed)
             IsEstimated(r) == r.estimated
             cumulativeTime == SumSeq(durations)
             earliestStart == MinSeq([i \in 1..Len(completed) |-> completed[i].startTime])
             latestStart == MaxSeq([i \in 1..Len(completed) |-> completed[i].startTime])
             actualTotalTime == latestStart - earliestStart
         IN [totalUrls |-> Len(requests), completedRequests |-> Len(completed),
             estimatedRequests |-> Len(SelectSeq(completed, IsEstimated)),
             averageTime |-> MathRound(cumulativeTime, Len(durations)),
             maxTime |-> MaxSeq(durations), minTime |-> MinSeq(durations),
             cumulativeTime |-> cumulativeTime, actualTotalTime |-> actualTotalTime,
             hasParallelEfficiency |-> TRUE,
             parallelEfficiency |-> ParallelEfficiency(actualTotalTime, cumulativeTime)]

(* generateSummary; the summary of an empty list has no parallelEfficiency *)
GenerateSummary(requests, completed) ==
    IF Len(completed) = 0
    THEN [totalUrls |-> Len(requests), completedRequests |-> 0, estimatedRequests |-> 0,
          averageTime |-> 0, maxTime |-> 0, minTime |-> 0, cumulativeTime |-> 0,
          actualTotalTime |-> 0, hasParallelEfficiency |-> FALSE,
          parallelEfficiency |-> 0]
    ELSE LET durations == Durations(completed)
             IsEstimated(r) == r.estimated
             cumulativeTime == SumSeq(durations)
             earliestStart == MinSeq([i \in 1..Len(completed) |-> completed[i].startTime])
             latestEnd == MaxSeq([i \in 1..Len(completed) |-> completed[i].endTime])
             actualTotalTime == latestEnd - earliestStart
         IN [totalUrls |-> Len(requests), completedRequests |-> Len(completed),
             estimatedRequests |-> Len(SelectSeq(completed, IsEstimated)),
             averageTime |-> MathRound(cumulativeTime, Len(durations)),
             maxTime |-> MaxSeq(durations), minTime |-> MinSeq(durations),
             cumulativeTime |-> cumulativeTime, actualTotalTime |-> actualTotalTime,
             hasParallelEfficiency |-> TRUE,
             parallelEfficiency |-> ParallelEfficiency(actualTotalTime, cumulativeTime)]

-----------------------------------------------------------------------------
(* Duplicate detector (generateRecommendations) *)

RequestsOf(completed, url) ==
    LET SameUrl(req) == req.url = url IN SelectSeq(completed, SameUrl)

(* the keys of urlCounts, in the order the Map received them *)
RECURSIVE CountedUrls(_, _)
CountedUrls(completed, seen) ==
    IF completed = <<>> THEN seen
    ELSE IF Head(completed).url \in Range(seen) THEN CountedUrls(Tail(completed), seen)
    ELSE CountedUrls(Tail(completed), Append(seen, Head(completed).url))

(* the preflight test without the factor two *)
LooksLikePreflightAnyLonger(durations) ==
    durations[1] < PreflightShortLimit /\ durations[2] > durations[1]

(* the preflight pattern: two durations, the shorter under 500 ms and the  *)
(* longer more than twice the shorter                                      *)
LooksLikePreflight(durations) ==
    durations[1] < PreflightShortLimit /\ durations[2] > durations[1] * 2

(* filterPreflightDuplicates: TRUE keeps the URL in the duplicate list *)
FilterPreflightDuplicates(completed, url, count) ==
    IF GetResourceType(url) # "API" THEN TRUE
    ELSE IF count > 2 THEN TRUE
    ELSE IF count = 2
            /\ LooksLikePreflight(SortAsc(Durations(RequestsOf(completed, url))))
         THEN FALSE
    ELSE TRUE

Duplicates(completed) ==
    LET IsDuplicate(url) ==
            /\ Len(RequestsOf(completed, url)) > 1
            /\ FilterPreflightDuplicates(completed, url, Len(RequestsOf(completed, url)))
    IN SelectSeq(CountedUrls(completed, <<>>), IsDuplicate)

(* Math.round(avgDuration * count): every load counted as wasted *)
WastedTimeAllLoads(total, count) == MathRound(total * count, count)

(* Math.round(avgDuration * (count - 1)) with avgDuration = total / count *)
WastedTime(total, count) == MathRound(total * (count - 1), count)

(* one element of duplicateStats *)
DuplicateStat(completed, url) ==
    LET requests == RequestsOf(completed, url)
        count == Len(requests)
        durations == SortAsc(Durations(requests))
        total == SumSeq(durations)
    IN [url |-> url, count |-> count, avgDuration |-> MathRound(total, count),
        wastedTime |-> WastedTime(total, count), durations |-> durations,
        isPossiblePreflight |-> /\ GetResourceType(url) = "API"
                                /\ count = 2
                                /\ LooksLikePreflight(durations),
        resourceType |-> GetResourceType(url)]

(* Array.prototype.sort((a, b) => b.count - a.count): stable *)
RECURSIVE InsertByCountDesc(_, _)
InsertByCountDesc(r, s) ==
    IF s = <<>> THEN <<r>>
    ELSE IF r.count > Head(s).count THEN <<r>> \o s
    ELSE <<Head(s)>> \o InsertByCountDesc(r, Tail(s))

RECURSIVE SortByCountDesc(_)
SortByCountDesc(s) ==
    IF s = <<>> THEN <<>>
    ELSE InsertByCountDesc(s[Len(s)], SortByCountDesc(SubSeq(s, 1, Len(s) - 1)))

DuplicateStats(completed) ==
    LET duplicates == Duplicates(completed)
    IN SortByCountDesc([i \in 1..Len(duplicates) |-> DuplicateStat(completed, duplicates[i])])

-----------------------------------------------------------------------------
(* Report *)

(* completedRequests.slice(-topN): the last topN requests of the list *)
GenerateTopResourcesFromEnd(completed, topN) ==
    LET k == IF topN < Len(completed) THEN topN ELSE Len(completed)
    IN [i \in 1..k |->
           [rank |-> i, duration |-> completed[Len(completed) - k + i].duration,
            type |-> completed[Len(completed) - k + i].type,
            url |-> completed[Len(completed) - k + i].url,
            estimated |-> completed[Len(completed) - k + i].estimated]]

(* generateTopResources: completedRequests.slice(0, topN), ranked *)
GenerateTopResources(completed, topN) ==
    LET k == IF topN < Len(completed) THEN topN ELSE Len(completed)
    IN [i \in 1..k |->
           [rank |-> i, duration |-> completed[i].duration, type |-> completed[i].type,
            url |-> completed[i].url, estimated |-> completed[i].estimated]]

(* the keys of typeStats, in the order the object received them *)
RECURSIVE CountedTypes(_, _)
CountedTypes(completed, seen) ==
    IF completed = <<>> THEN seen
    ELSE IF Head(completed).type \in Range(seen) THEN CountedTypes(Tail(completed), seen)
    ELSE CountedTypes(Tail(completed), Append(seen, Head(completed).type))

(* the entry of typeStats for one type without the grouping by type: every *)
(* completed request is counted in every entry                             *)
TypeStatOfAllRequests(completed, type, ticks) ==
    LET IsEstimated(req) == req.estimated
        durations == Durations(completed)
        totalTime == SumSeq(durations)
    IN [type |-> type, count |-> Len(completed), totalTime |-> totalTime,
        avgTime |-> ticks * MathRound(totalTime, ticks * Len(completed)),
        estimatedCount |-> Len(SelectSeq(completed, IsEstimated)),
        minTime |-> MinSeq(durations),
        maxTime |-> IF MaxSeq(durations) > 0 THEN MaxSeq(durations) ELSE 0]

(* the entry of typeStats for one type; durations are counted in 1/ticks   *)
(* of a millisecond, and Math.round gives whole milliseconds               *)
TypeStat(completed, type, ticks) ==
    LET OfType(req) == req.type = type
        IsEstimated(req) == req.estimated
        requests == SelectSeq(completed, OfType)
        durations == Durations(requests)
        totalTime == SumSeq(durations)
    IN [type |-> type, count |-> Len(requests), totalTime |-> totalTime,
        avgTime |-> ticks * MathRound(totalTime, ticks * Len(requests)),
        estimatedCount |-> Len(SelectSeq(requests, IsEstimated)),
        minTime |-> MinSeq(durations),
        maxTime |-> IF MaxSeq(durations) > 0 THEN MaxSeq(durations) ELSE 0]

(* generateTypeStats without its _total entry *)
GenerateTypeStatsIn(completed, ticks) ==
    LET types == CountedTypes(completed, <<>>)
    IN [i \in 1..Len(types) |-> TypeStat(completed, types[i], ticks)]

(* generateTypeStats on durations in whole milliseconds *)
GenerateTypeStats(completed) == GenerateTypeStatsIn(completed, 1)

(* generateReport(topN) after its call of finalizeAnalysis *)
BuildReportTop(requests, completed, topN) ==
    [generated |-> TRUE,
     summary |-> GenerateSummary(requests, completed),
     duplicateStats |-> DuplicateStats(completed),
     topN |-> topN,
     topResources |-> GenerateTopResources(completed, topN),
     typeStats |-> GenerateTypeStats(completed)]

(* generateReport() after its call of finalizeAnalysis *)
BuildReport(requests, completed) == BuildReportTop(requests, completed, DefaultTopN)

NoReport ==
    [generated |-> FALSE, summary |-> GenerateSummary(<<>>, <<>>), duplicateStats |-> <<>>,
     topN |-> DefaultTopN, topResources |-> <<>>, typeStats |-> <<>>]

-----------------------------------------------------------------------------
(* Score (printReport) *)

(* avgTime >= 2000 and so on: every row of the table taken one unit early *)
AvgScoreInclusive(avgTime) ==
    IF avgTime >= 2000 THEN 30
    ELSE IF avgTime >= 1000 THEN 50
    ELSE IF avgTime >= 600 THEN 70
    ELSE IF avgTime >= 300 THEN 85
    ELSE 95

AvgScore(avgTime) ==
    IF avgTime > 2000 THEN 30
    ELSE IF avgTime > 1000 THEN 50
    ELSE IF avgTime > 600 THEN 70
    ELSE IF avgTime > 300 THEN 85
    ELSE 95

ActualTotalScore(actualTotalTime) ==
    IF actualTotalTime > 30000 THEN 30
    ELSE IF actualTotalTime > 15000 THEN 50
    ELSE IF actualTotalTime > 8000 THEN 70
    ELSE IF actualTotalTime > 3000 THEN 85
    ELSE 95

(* parseFloat(report.summary.parallelEfficiency): NaN when the summary has *)
(* no such key, else the number, in tenths of a percent                    *)
ParseFloatEfficiency(summary) ==
    [nan |-> ~summary.hasParallelEfficiency, tenths |-> summary.parallelEfficiency]

(* every comparison with NaN is false: NaN takes the last branch *)
ParallelScore(parallelEfficiency) ==
    IF parallelEfficiency.nan THEN 95
    ELSE IF parallelEfficiency.tenths < 300 THEN 60
    ELSE IF parallelEfficiency.tenths < 600 THEN 75
    ELSE IF parallelEfficiency.tenths < 800 THEN 85
    ELSE 95

CountScore(requestCount) ==
    IF requestCount > 100 THEN 60
    ELSE IF requestCount > 50 THEN 75
    ELSE IF requestCount > 20 THEN 90
    ELSE 95

(* estimatedRequests / completedRequests, kept as a fraction; 0 / 0 is NaN *)
EstimatedRatio(summary) ==
    [nan |-> summary.completedRequests = 0,
     num |-> summary.estimatedRequests, den |-> summary.completedRequests]

EstimatedScore(estimatedRatio) ==
    IF estimatedRatio.nan THEN 100
    ELSE IF 2 * estimatedRatio.num > estimatedRatio.den THEN 60
    ELSE IF 10 * estimatedRatio.num > 3 * estimatedRatio.den THEN 80
    ELSE IF estimatedRatio.num > 0 THEN 90
    ELSE 100

(* Math.round of the weighted sum, the weights in hundredths *)
WeightedScore(avgScore, actualTotalScore, parallelScore, countScore, estimatedScore) ==
    MathRound(30 * avgScore + 35 * actualTotalScore + 20 * parallelScore
              + 10 * countScore + 5 * estimatedScore, 100)

Grade(score) ==
    IF score >= 90 THEN "A"
    ELSE IF score >= 80 THEN "B"
    ELSE IF score >= 70 THEN "C"
    ELSE IF score >= 60 THEN "D"
    ELSE "F"

(* the scoring block of printReport *)
Scorecard(summary) ==
    LET parallelEfficiency == ParseFloatEfficiency(summary)
        avgScore == AvgScore(summary.averageTime)
        actualTotalScore == ActualTotalScore(summary.actualTotalTime)
        parallelScore == ParallelScore(parallelEfficiency)
        countScore == CountScore(summary.completedRequests)
        estimatedRatio == EstimatedRatio(summary)
        estimatedScore == EstimatedScore(estimatedRatio)
        score == WeightedScore(avgScore, actualTotalScore, parallelScore, countScore,
                               estimatedScore)
    IN [printed |-> TRUE, parallelEfficiency |-> parallelEfficiency,
        estimatedRatio |-> estimatedRatio, avgScore |-> avgScore,
        actualTotalScore |-> actualTotalScore, parallelScore |-> parallelScore,
        countScore |-> countScore, estimatedScore |-> estimatedScore,
        score |-> score, grade |-> Grade(score)]

NoScorecard ==
    [printed |-> FALSE, parallelEfficiency |-> [nan |-> TRUE, tenths |-> 0],
     estimatedRatio |-> [nan |-> TRUE, num |-> 0, den |-> 0], avgScore |-> 0,
     actualTotalScore |-> 0, parallelScore |-> 0, countScore |-> 0,
     estimatedScore |-> 0, score |-> 0, grade |-> ""]

-----------------------------------------------------------------------------
(* Inputs *)

StartInstants == {1000, 1120, 1950}
EndInstants == {1120, 1950, 61000}

(* the events of one URL, in the textPayload envelope of Cloud Logging *)
ApiEvents ==
    { PayloadEntry(Iso(t), "+", UrlApi, AbsentTs) : t \in StartInstants }
    \cup { PayloadEntry(Iso(t), "-", UrlApi, AbsentTs) : t \in EndInstants }

(* the entries of the analysed log *)
LogEntries ==
    ApiEvents
    \cup { DurationObject(Iso(1000), UrlApi, 240),
           DurationObject(Iso(1950), UrlPlain, 600),
           EventObject(Iso(1000), "start", UrlPlain),
           ArrayEntry(Iso(1000), "+", UrlJs),
           ArrayEntry(Iso(1500), "-", UrlJs),
           DurationObject(AbsentTs, UrlPng, 300) }

-----------------------------------------------------------------------------
(* Website tester: the state before any call *)

PageUrls == {UrlJs, UrlApi}

NoBrowser == [clock |-> 1, requests |-> <<>>, pending |-> {}, suspended |-> {},
              owner |-> [url \in PageUrls |-> 0], recorded |-> <<>>, taken |-> {}]

NoBatch == [pc |-> "idle", urls |-> <<>>, method |-> "", saveHtml |-> TRUE, i |-> 1,
            results |-> <<>>, calls |-> 0]

-----------------------------------------------------------------------------
(* analyzeFile *)

NoCall == [calls |-> 0, url |-> "", timestamp |-> 0, action |-> ""]

NoReplay == [pending |-> <<>>, urlRequests |-> <<>>, completedRequests |-> <<>>,
             finalized |-> FALSE]

Init ==
    /\ urlRequests = <<>>
    /\ completedRequests = <<>>
    /\ pc = "parseJsonLog"
    /\ jsonData = <<>>
    /\ preprocessed = <<>>
    /\ finalizeRuns = 0
    /\ report = NoReport
    /\ replay = NoReplay
    /\ scorecard = NoScorecard
    /\ lastCall = NoCall
    /\ parseCalls = <<>>
    /\ results = <<>>
    /\ requestStartTimes = [url \in PageUrls |-> 0]
    /\ network = <<>>
    /\ browser = NoBrowser
    /\ batch = NoBatch

(* one iteration of jsonData.forEach in parseJsonLog; an exception of     *)
(* processJsonEntry ends the forEach and is caught in analyzeFile, which   *)
(* then calls parseTextLog on the file content: no line of a JSON file     *)
(* starts with a timestamp, so parseTextLog adds nothing                   *)
Ingest(entry, bound) ==
    /\ pc = "parseJsonLog"
    /\ Len(jsonData) < bound
    /\ IF ProcessJsonEntryRaises(entry)
       THEN /\ pc' = "parseTextLog"
            /\ UNCHANGED <<urlRequests, completedRequests, preprocessed>>
       ELSE LET result == ProcessJsonEntry(entry, urlRequests, completedRequests)
            IN /\ urlRequests' = result[1]
               /\ completedRequests' = result[2]
               /\ preprocessed' = result[2]
               /\ pc' = pc
    /\ jsonData' = Append(jsonData, entry)
    /\ UNCHANGED <<finalizeRuns, report, scorecard, lastCall, parseCalls, results, requestStartTimes, network, browser, batch>>

ReadEntry(entry) ==
    /\ Ingest(entry, MaxEntries)
    /\ UNCHANGED replay

(* generateReport: finalizeAnalysis, then the report *)
GenerateReport ==
    /\ urlRequests' = [i \in 1..Len(urlRequests) |-> SortedUrlData(urlRequests[i])]
    /\ completedRequests' = FinalizeAnalysis(urlRequests, completedRequests)
    /\ finalizeRuns' = finalizeRuns + 1
    /\ report' = BuildReport(urlRequests', completedRequests')

(* this.printReport() in analyzeFile, once the input is exhausted *)
PrintReport ==
    /\ pc \in {"parseJsonLog", "parseTextLog"}
    /\ GenerateReport
    /\ scorecard' = Scorecard(report'.summary)
    /\ pc' = "printed"
    /\ UNCHANGED <<jsonData, preprocessed, replay, lastCall, parseCalls, results, requestStartTimes, network, browser, batch>>

(* return this.generateReport() in analyzeFile *)
ReturnReport ==
    /\ pc = "printed"
    /\ GenerateReport
    /\ pc' = "done"
    /\ UNCHANGED <<jsonData, preprocessed, replay, scorecard, lastCall, parseCalls, results, requestStartTimes, network, browser, batch>>

Next ==
    \/ \E entry \in LogEntries : ReadEntry(entry)
    \/ PrintReport
    \/ ReturnReport

Spec == Init /\ [][Next]_vars

-----------------------------------------------------------------------------
(* Two analyzer instances given the same events of one URL: the first      *)
(* reads them in the order of the log, the second in any order             *)

RemoveAt(s, i) == SubSeq(s, 1, i - 1) \o SubSeq(s, i + 1, Len(s))

(* parseJsonLog of the first instance; the entry is kept for the second *)
RecordEntry(entry) ==
    /\ Ingest(entry, MaxReplayEntries)
    /\ replay' = [replay EXCEPT !.pending = Append(@, entry)]

(* processJsonEntry of the second instance, on any entry not yet given *)
ReplayEntry(i) ==
    /\ pc = "printed"
    /\ i \in 1..Len(replay.pending)
    /\ LET result == ProcessJsonEntry(replay.pending[i], replay.urlRequests,
                                      replay.completedRequests)
       IN replay' = [replay EXCEPT !.pending = RemoveAt(@, i),
                                   !.urlRequests = result[1],
                                   !.completedRequests = result[2]]
    /\ UNCHANGED <<urlRequests, completedRequests, pc, jsonData, preprocessed,
                   finalizeRuns, report, scorecard, lastCall, parseCalls, results, requestStartTimes, network, browser, batch>>

(* finalizeAnalysis of the second instance *)
ReplayFinalize ==
    /\ pc = "printed"
    /\ replay.pending = <<>>
    /\ ~replay.finalized
    /\ replay' = [replay EXCEPT
                     !.urlRequests = [i \in 1..Len(@) |-> SortedUrlData(@[i])],
                     !.completedRequests =
                         FinalizeAnalysis(replay.urlRequests, replay.completedRequests),
                     !.finalized = TRUE]
    /\ UNCHANGED <<urlRequests, completedRequests, pc, jsonData, preprocessed,
                   finalizeRuns, report, scorecard, lastCall, parseCalls, results, requestStartTimes, network, browser, batch>>

NextRepeat ==
    \/ \E entry \in ApiEvents : RecordEntry(entry)
    \/ PrintReport
    \/ \E i \in 1..MaxReplayEntries : ReplayEntry(i)
    \/ ReplayFinalize

SpecRepeat == Init /\ [][NextRepeat]_vars

-----------------------------------------------------------------------------
(* Two analyzer instances given the same records of several URLs, the     *)
(* second one in any order                                                 *)

ReorderEntries ==
    { PayloadEntry(Iso(1000), "+", UrlApi, AbsentTs),
      PayloadEntry(Iso(1120), "+", UrlApi, AbsentTs),
      PayloadEntry(Iso(1950), "-", UrlApi, AbsentTs),
      EventObject(Iso(1000), "start", UrlPlain),
      DurationObject(Iso(1950), UrlPlain, 600) }

NextReorder ==
    \/ \E entry \in ReorderEntries : RecordEntry(entry)
    \/ PrintReport
    \/ \E i \in 1..MaxReplayEntries : ReplayEntry(i)
    \/ ReplayFinalize

SpecReorder == Init /\ [][NextReorder]_vars

-----------------------------------------------------------------------------
(* analyzeFile on a log with malformed records *)

(* null, a number, an object without fields, a textPayload that is an      *)
(* object, a textPayload that is a number, a numeric timestamp, a          *)
(* timestamp no parser reads; then two well-formed records                 *)
MalformedEntries ==
    { [EmptyObject EXCEPT !.shape = "null"],
      [EmptyObject EXCEPT !.shape = "number"],
      EmptyObject,
      [EventObject(Iso(1000), "start", UrlApi) EXCEPT
          !.textPayload = [NoPayload EXCEPT !.kind = "nonString"]],
      [EventObject(Iso(1120), "end", UrlApi) EXCEPT
          !.textPayload = [NoPayload EXCEPT !.kind = "jsonOther"]],
      EventObject([form |-> "number", ms |-> 1000], "start", UrlApi),
      EventObject([form |-> "garbage", ms |-> 0], "start", UrlApi),
      EventObject(Iso(1000), "start", UrlApi),
      PayloadEntry(Iso(1950), "-", UrlApi, AbsentTs) }

ReadMalformed(entry) ==
    /\ Ingest(entry, MaxMalformedEntries)
    /\ UNCHANGED replay

NextMalformed ==
    \/ \E entry \in MalformedEntries : ReadMalformed(entry)
    \/ PrintReport
    \/ ReturnReport

SpecMalformed == Init /\ [][NextMalformed]_vars

-----------------------------------------------------------------------------
(* The scoring block of printReport on summaries around every threshold *)

ScoreCounts == {0, 1, 20, 21, 50, 51, 100, 101}
ScoreEstimated == {0, 1, 6, 7, 10, 11}
ScoreAverages == {300, 301, 600, 601, 1000, 1001, 2000, 2001}
ScoreActualTimes == {3000, 3001, 8000, 8001, 15000, 15001, 30000, 30001}

(* actualTotalTime as thousandths of cumulativeTime: the efficiencies      *)
(* 80.0, 79.9, 60.0, 59.9, 30.0, 29.9 and 0.0                              *)
ScoreTimeShares == {200, 201, 400, 401, 700, 701, 1000}

(* the fields of the summary that the scoring block reads, built as        *)
(* generateSummary builds them                                             *)
ScoredSummary(count, estimated, cumulativeTime, actualTotalTime) ==
    IF count = 0
    THEN [completedRequests |-> 0, estimatedRequests |-> 0, averageTime |-> 0,
          cumulativeTime |-> 0, actualTotalTime |-> 0,
          hasParallelEfficiency |-> FALSE, parallelEfficiency |-> 0]
    ELSE [completedRequests |-> count, estimatedRequests |-> estimated,
          averageTime |-> MathRound(cumulativeTime, count),
          cumulativeTime |-> cumulativeTime, actualTotalTime |-> actualTotalTime,
          hasParallelEfficiency |-> TRUE,
          parallelEfficiency |-> ParallelEfficiency(actualTotalTime, cumulativeTime)]

(* the wall-clock spans a summary of `count` requests can have: the        *)
(* longest request lasts at least the average and lies inside the span;    *)
(* one request alone spans its own duration                                *)
ScoredActualTimes(count, cumulativeTime) ==
    IF count = 1 THEN {cumulativeTime}
    ELSE { t \in ScoreActualTimes
                 \cup { (cumulativeTime * k) \div 1000 : k \in ScoreTimeShares } :
             t * count >= cumulativeTime }

ScoredSummaries ==
    { ScoredSummary(0, 0, 0, 0) }
    \cup UNION { { ScoredSummary(count, estimated, average * count, actualTotalTime) :
                     estimated \in { e \in ScoreEstimated : e <= count },
                     actualTotalTime \in ScoredActualTimes(count, average * count) } :
                 count \in ScoreCounts \ {0}, average \in ScoreAverages }

InitScore ==
    /\ urlRequests = <<>>
    /\ completedRequests = <<>>
    /\ pc = "printReport"
    /\ jsonData = <<>>
    /\ preprocessed = <<>>
    /\ finalizeRuns = 1
    /\ \E summary \in ScoredSummaries :
           report = [NoReport EXCEPT !.generated = TRUE, !.summary = summary]
    /\ replay = NoReplay
    /\ scorecard = NoScorecard
    /\ lastCall = NoCall
    /\ parseCalls = <<>>
    /\ results = <<>>
    /\ requestStartTimes = [url \in PageUrls |-> 0]
    /\ network = <<>>
    /\ browser = NoBrowser
    /\ batch = NoBatch

(* printReport from its scoring block on *)
PrintScore ==
    /\ pc = "printReport"
    /\ scorecard' = Scorecard(report.summary)
    /\ pc' = "printed"
    /\ UNCHANGED <<urlRequests, completedRequests, jsonData, preprocessed, finalizeRuns,
                   report, replay, lastCall, parseCalls, results, requestStartTimes, network, browser, batch>>

NextScore == PrintScore

SpecScore == InitScore /\ [][NextScore]_vars

-----------------------------------------------------------------------------
(* Direct calls of addUrlEvent on an analyzer that also reads records *)

(* "" is every argument that is empty or not a string, 0 every timestamp   *)
(* that is falsy or not a number; "other" is an action outside the switch  *)
StoreUrls == {"", UrlApi, UrlJs}
StoreTimestamps == {0, 1000}
StoreActions == {"start", "end", "unknown", "other"}

StoreEntries == { DurationObject(Iso(1000), UrlApi, 240) }

CallAddUrlEvent(url, timestamp, action) ==
    /\ pc = "parseJsonLog"
    /\ lastCall.calls < MaxStoreCalls
    /\ urlRequests' = AddUrlEvent(urlRequests, url, timestamp, action)
    /\ lastCall' = [calls |-> lastCall.calls + 1, url |-> url, timestamp |-> timestamp,
                    action |-> action]
    /\ UNCHANGED <<completedRequests, pc, jsonData, preprocessed, finalizeRuns, report,
                   replay, scorecard, parseCalls, results, requestStartTimes, network, browser, batch>>

ReadStored(entry) ==
    /\ Ingest(entry, MaxStoreCalls)
    /\ UNCHANGED replay

NextStore ==
    \/ \E url \in StoreUrls, timestamp \in StoreTimestamps, action \in StoreActions :
           CallAddUrlEvent(url, timestamp, action)
    \/ \E entry \in StoreEntries : ReadStored(entry)

SpecStore == Init /\ [][NextStore]_vars

-----------------------------------------------------------------------------
(* parseJsonLog on start records in the textPayload envelope, with every   *)
(* combination of the three timestamp sources                              *)

(* absent, readable, a string no parser reads, a JSON number *)
PayloadTimestamps ==
    {AbsentTs, Iso(1000), [form |-> "garbage", ms |-> 0], [form |-> "number", ms |-> 1000]}
OuterTimestamps == {AbsentTs, Iso(2000), [form |-> "garbage", ms |-> 0]}
ReceiveTimestamps == {AbsentTs, Iso(3000), [form |-> "garbage", ms |-> 0]}

EnvelopeEntries ==
    { [PayloadEntry(inner, "+", UrlApi, outer) EXCEPT !.receiveTimestamp = receive] :
        inner \in PayloadTimestamps, outer \in OuterTimestamps,
        receive \in ReceiveTimestamps }

ReadEnvelope(entry) ==
    /\ Ingest(entry, MaxEnvelopeEntries)
    /\ UNCHANGED replay

NextEnvelope == \E entry \in EnvelopeEntries : ReadEnvelope(entry)

SpecEnvelope == Init /\ [][NextEnvelope]_vars

-----------------------------------------------------------------------------
(* Direct calls of parseTimestamp *)

(* the five shapes parseTimestamp tells apart, each for two instants, and  *)
(* a string that matches no format and that Date cannot read               *)
TimestampInputs ==
    { [form |-> form, ms |-> ms] :
        form \in {"iso", "space", "digits13", "date", "number"}, ms \in {1000, 1950} }
    \cup { [form |-> "garbage", ms |-> 0] }

CallParseTimestamp(timeStr) ==
    /\ Len(parseCalls) < MaxParseCalls
    /\ parseCalls' = Append(parseCalls, [input |-> timeStr,
                                         result |-> ParseTimestamp(timeStr)])
    /\ UNCHANGED <<urlRequests, completedRequests, pc, jsonData, preprocessed,
                   finalizeRuns, report, replay, scorecard, lastCall, results, requestStartTimes, network, browser, batch>>

NextTimestamp == \E timeStr \in TimestampInputs : CallParseTimestamp(timeStr)

SpecTimestamp == Init /\ [][NextTimestamp]_vars

-----------------------------------------------------------------------------
(* parseJsonLog on records that carry their own duration, next to start    *)
(* and end events of the same URL                                          *)

DirectEntries ==
    { DurationObject(Iso(1000), UrlApi, 240),
      [EmptyObject EXCEPT !.timestamp = Iso(1000), !.url = UrlApi, !.loadTime = 300],
      [EmptyObject EXCEPT !.time = Iso(1120), !.uri = UrlJs, !.responseTime = 120],
      [EmptyObject EXCEPT !.timestamp = Iso(1000), !.url = UrlApi, !.duration = -1,
                          !.loadTime = 300],
      [EmptyObject EXCEPT
          !.textPayload = [kind |-> "json3", timestamp |-> Iso(1000), action |-> "",
                           url |-> UrlApi, duration |-> 500]],
      [EmptyObject EXCEPT
          !.timestamp = Iso(1950),
          !.textPayload = [kind |-> "textDuration", timestamp |-> AbsentTs,
                           action |-> "", url |-> UrlJs, duration |-> 150]],
      PayloadEntry(Iso(1000), "+", UrlApi, AbsentTs),
      PayloadEntry(Iso(1120), "-", UrlApi, AbsentTs) }

ReadDirect(entry) ==
    /\ Ingest(entry, MaxDirectEntries)
    /\ UNCHANGED replay

NextDirect ==
    \/ \E entry \in DirectEntries : ReadDirect(entry)
    \/ PrintReport

SpecDirect == Init /\ [][NextDirect]_vars

-----------------------------------------------------------------------------
(* generateReport(topN) called with a short list length *)

TopEntries ==
    { DurationObject(Iso(1000), UrlApi, 240),
      DurationObject(Iso(1000), UrlJs, 240),
      DurationObject(Iso(1950), UrlPlain, 600),
      DurationObject(Iso(1120), UrlPng, 120),
      PayloadEntry(Iso(1000), "+", UrlApi, AbsentTs),
      PayloadEntry(Iso(1950), "-", UrlApi, AbsentTs) }

TopLengths == {0, 1, 2, DefaultTopN}

ReadTop(entry) ==
    /\ Ingest(entry, MaxTopEntries)
    /\ UNCHANGED replay

(* generateReport(topN) *)
GenerateReportTop(topN) ==
    /\ pc \in {"parseJsonLog", "generateReport"}
    /\ finalizeRuns < MaxReports
    /\ urlRequests' = [i \in 1..Len(urlRequests) |-> SortedUrlData(urlRequests[i])]
    /\ completedRequests' = FinalizeAnalysis(urlRequests, completedRequests)
    /\ finalizeRuns' = finalizeRuns + 1
    /\ report' = BuildReportTop(urlRequests', completedRequests', topN)
    /\ pc' = "generateReport"
    /\ UNCHANGED <<jsonData, preprocessed, replay, scorecard, lastCall, parseCalls, results, requestStartTimes, network, browser, batch>>

NextTop ==
    \/ \E entry \in TopEntries : ReadTop(entry)
    \/ \E topN \in TopLengths : GenerateReportTop(topN)

SpecTop == Init /\ [][NextTop]_vars

-----------------------------------------------------------------------------
(* Properties *)

CountOf(url, requests) == Len(RequestsOf(requests, url))

(* the requests of a URL that finalization added to those ingestion left *)
MatcherCount(url) == CountOf(url, completedRequests) - CountOf(url, preprocessed)

EstimatedCount(url) ==
    LET IsEstimated(req) == req.estimated
    IN Len(SelectSeq(RequestsOf(completedRequests, url), IsEstimated))

(* C1 (as claimed): once the timelines have been matched, a URL with one   *)
(* start event and no end event has exactly one request from the matcher,  *)
(* and that request is estimated                                           *)
C1_EstimationFallback ==
    pc = "printed" =>
        \A i \in 1..Len(urlRequests) :
            (Len(urlRequests[i].startTimes) = 1 /\ Len(urlRequests[i].endTimes) = 0)
                => /\ MatcherCount(urlRequests[i].url) = 1
                   /\ EstimatedCount(urlRequests[i].url) = 1

(* a pairing of every start with an end of its own, each end strictly      *)
(* after its start and inside the window                                   *)
PerfectPairingExists(startTimes, endTimes) ==
    /\ Len(startTimes) = Len(endTimes)
    /\ \E f \in [1..Len(startTimes) -> 1..Len(endTimes)] :
          /\ \A i, j \in 1..Len(startTimes) : i # j => f[i] # f[j]
          /\ \A i \in 1..Len(startTimes) :
                /\ endTimes[f[i]] > startTimes[i]
                /\ endTimes[f[i]] - startTimes[i] < MaxRequestDuration

(* C2 (as claimed): a URL with N >= 1 starts and N ends that can be        *)
(* perfectly paired gets exactly N requests from the matcher, none of them *)
(* estimated                                                               *)
C2_ConservationUnderFullPairing ==
    pc = "printed" =>
        \A i \in 1..Len(urlRequests) :
            (/\ Len(urlRequests[i].startTimes) >= 1
             /\ PerfectPairingExists(urlRequests[i].startTimes, urlRequests[i].endTimes))
                => /\ MatcherCount(urlRequests[i].url) = Len(urlRequests[i].startTimes)
                   /\ EstimatedCount(urlRequests[i].url) = 0

(* C3 (as claimed): the input [[t, "+", id, url], [t + 500, "-", id, url]] *)
(* gives one completed request of 500 ms, type JavaScript, not estimated   *)
C3_ArrayOfArrays ==
    (/\ pc = "printed"
     /\ jsonData = <<ArrayEntry(Iso(1000), "+", UrlJs), ArrayEntry(Iso(1500), "-", UrlJs)>>)
        => completedRequests =
               <<[url |-> UrlJs, startTime |-> 1000, endTime |-> 1500, duration |-> 500,
                  type |-> "JavaScript", estimated |-> FALSE]>>

(* a flat record with a URL and a positive duration in its duration field  *)
IsDurationRecord(entry) ==
    /\ entry.shape = "object"
    /\ ~HasPayload(entry.textPayload)
    /\ entry.url # ""
    /\ entry.duration > 0

HasNoTimeField(entry) == \A k \in 1..Len(TimeFields) : ~Truthy(entry[TimeFields[k]])

(* the not estimated requests of a list with this URL and this duration *)
DirectRequests(requests, url, duration) ==
    LET Matches(req) == req.url = url /\ req.duration = duration /\ ~req.estimated
    IN SelectSeq(requests, Matches)

(* the duration records read so far with this URL and this duration *)
DurationRecords(url, duration) ==
    LET Matches(entry) ==
            IsDurationRecord(entry) /\ entry.url = url /\ entry.duration = duration
    IN SelectSeq(jsonData, Matches)

TimedDurationRecords(url, duration) ==
    LET Timed(entry) == entry.timestamp.form = "iso"
    IN SelectSeq(DurationRecords(url, duration), Timed)

(* C4 (as claimed): every record carrying only a url and a positive        *)
(* duration has one completed request of its own, of that duration and not *)
(* estimated                                                               *)
C4_DurationOnlyRecord ==
    \A k \in 1..Len(jsonData) :
        (IsDurationRecord(jsonData[k]) /\ HasNoTimeField(jsonData[k]))
            => Len(DirectRequests(preprocessed, jsonData[k].url, jsonData[k].duration))
                   = Len(DurationRecords(jsonData[k].url, jsonData[k].duration))

(* C4 (amended): the completed requests that ingestion creates for a URL   *)
(* and a duration are, one for one, the duration records that also carry a *)
(* resolvable timestamp, each starting at that timestamp; a record without *)
(* any timestamp field creates none                                        *)
C4_DurationRecordNeedsTimestamp ==
    \A k \in 1..Len(jsonData) :
        IsDurationRecord(jsonData[k]) =>
            LET url == jsonData[k].url
                duration == jsonData[k].duration
                created == DirectRequests(preprocessed, url, duration)
                timed == TimedDurationRecords(url, duration)
            IN /\ Len(created) = Len(timed)
               /\ \A i \in 1..Len(created) :
                     /\ created[i].startTime = timed[i].timestamp.ms
                     /\ created[i].endTime = created[i].startTime + duration

(* C4 witness: a duration record without timestamp and one with a          *)
(* timestamp have both been read                                           *)
C4_Witness ==
    /\ \E k \in 1..Len(jsonData) :
          IsDurationRecord(jsonData[k]) /\ HasNoTimeField(jsonData[k])
    /\ \E k \in 1..Len(jsonData) :
          IsDurationRecord(jsonData[k]) /\ ~HasNoTimeField(jsonData[k])
    /\ Len(preprocessed) = 1

(* C5 (as claimed): the parallel efficiency of a report over a non-empty   *)
(* list is at least 0 and below 100 percent                                *)
C5_ParallelEfficiencyBounds ==
    (report.generated /\ Len(completedRequests) > 0)
        => /\ report.summary.parallelEfficiency >= 0
           /\ report.summary.parallelEfficiency < 1000

(* C5 (amended): the parallel efficiency of a report over a non-empty list *)
(* never exceeds 100 percent; it is at least 0 when the wall-clock span is *)
(* within the cumulative time, and at most 0 when the span is longer       *)
C5_ParallelEfficiencySign ==
    (report.generated /\ Len(completedRequests) > 0)
        => /\ report.summary.hasParallelEfficiency
           /\ report.summary.parallelEfficiency <= 1000
           /\ (report.summary.actualTotalTime <= report.summary.cumulativeTime
                  => report.summary.parallelEfficiency >= 0)
           /\ (report.summary.actualTotalTime > report.summary.cumulativeTime
                  => report.summary.parallelEfficiency <= 0)

(* C5 witness: a report over requests separated by an idle gap, with a     *)
(* negative efficiency                                                     *)
C5_Witness ==
    /\ report.generated
    /\ Len(completedRequests) > 1
    /\ report.summary.actualTotalTime > report.summary.cumulativeTime
    /\ report.summary.parallelEfficiency < 0

(* C6: every completed request ends no earlier than it starts and its      *)
(* duration is its end minus its start, never negative                     *)
C6_NoNegativeDurations ==
    \A i \in 1..Len(completedRequests) :
        /\ completedRequests[i].endTime >= completedRequests[i].startTime
        /\ completedRequests[i].duration
               = completedRequests[i].endTime - completedRequests[i].startTime
        /\ completedRequests[i].duration >= 0

(* C6 witness: a paired, an estimated and a direct-duration request are in *)
(* the list together                                                       *)
C6_Witness ==
    /\ pc = "printed"
    /\ \E i \in 1..Len(completedRequests) : completedRequests[i].estimated
    /\ Len(preprocessed) > 0
    /\ \E url \in Urls : MatcherCount(url) - EstimatedCount(url) > 0

Reported(url) ==
    \E i \in 1..Len(report.duplicateStats) : report.duplicateStats[i].url = url

(* C7: in a report, an API URL with exactly two completed requests is left *)
(* out of the duplicate list exactly when the shorter lasted under 500 ms  *)
(* and the longer more than twice the shorter; a URL of another type with  *)
(* two or more completed requests is always listed                         *)
C7_PreflightSuppression ==
    report.generated =>
        \A url \in Urls :
            LET durations == Durations(RequestsOf(completedRequests, url))
            IN /\ (GetResourceType(url) = "API" /\ Len(durations) = 2)
                      => (~Reported(url)
                            <=> (/\ MinSeq(durations) < 500
                                 /\ MaxSeq(durations) > 2 * MinSeq(durations)))
               /\ (GetResourceType(url) # "API" /\ Len(durations) >= 2)
                      => Reported(url)

(* C7 witness: a report that leaves out an API URL whose two requests have *)
(* the preflight pattern                                                   *)
C7_Witness ==
    /\ report.generated
    /\ CountOf(UrlApi, completedRequests) = 2
    /\ MinSeq(Durations(RequestsOf(completedRequests, UrlApi))) < 500
    /\ ~Reported(UrlApi)

(* C8 (as claimed): a URL with more than two completed requests is listed  *)
(* with its count and with wastedTime exactly average times (count - 1)    *)
C8_WastedTimeExact ==
    report.generated =>
        \A url \in Urls :
            CountOf(url, completedRequests) > 2 =>
                \E i \in 1..Len(report.duplicateStats) :
                    LET stat == report.duplicateStats[i]
                    IN /\ stat.url = url
                       /\ stat.count = CountOf(url, completedRequests)
                       /\ stat.wastedTime * stat.count
                              = SumSeq(Durations(RequestsOf(completedRequests, url)))
                                    * (stat.count - 1)

(* C8 (amended): a URL with more than two completed requests is listed     *)
(* with its count and with wastedTime equal to average times (count - 1)   *)
(* rounded to the nearest integer                                          *)
C8_WastedTimeRounded ==
    report.generated =>
        \A url \in Urls :
            CountOf(url, completedRequests) > 2 =>
                \E i \in 1..Len(report.duplicateStats) :
                    LET stat == report.duplicateStats[i]
                        exact == SumSeq(Durations(RequestsOf(completedRequests, url)))
                                     * (stat.count - 1)
                    IN /\ stat.url = url
                       /\ stat.count = CountOf(url, completedRequests)
                       /\ 2 * (stat.wastedTime * stat.count - exact) <= stat.count
                       /\ 2 * (exact - stat.wastedTime * stat.count) < stat.count

(* C8 witness: a report listing an API URL with three requests whose       *)
(* average times two is not an integer                                     *)
C8_Witness ==
    /\ report.generated
    /\ CountOf(UrlApi, completedRequests) = 3
    /\ Reported(UrlApi)
    /\ (SumSeq(Durations(RequestsOf(completedRequests, UrlApi))) * 2) % 3 # 0

(* C9: two analyzers given the same start and end events of one URL, in    *)
(* whatever order each receives them, finish with the same completed       *)
(* requests (start, end, duration and estimated flag)                      *)
C9_PairingDeterminism ==
    (pc = "printed" /\ replay.finalized)
        => replay.completedRequests = completedRequests

(* C9 witness: both analyzers have finished, the second one read the       *)
(* events in another order, and the result has a paired and an estimated   *)
(* request                                                                 *)
C9_Witness ==
    /\ pc = "printed"
    /\ replay.finalized
    /\ Len(jsonData) = 3
    /\ jsonData[1].textPayload.timestamp.ms > jsonData[2].textPayload.timestamp.ms
    /\ \E i \in 1..Len(completedRequests) : completedRequests[i].estimated
    /\ \E i \in 1..Len(completedRequests) : ~completedRequests[i].estimated

(* C10 (as claimed): finalization has not run while records are ingested   *)
(* and has run exactly once when analyzeFile returns                       *)
C10_FinalizeExactlyOnce ==
    /\ (pc = "parseJsonLog" => finalizeRuns = 0)
    /\ (pc = "done" => finalizeRuns = 1)

(* C11: once a report has been generated, generating a report again leaves *)
(* the completed-request list, and with it the report, unchanged           *)
C11_ReadOnlyAfterMatching ==
    [][report.generated => (completedRequests' = completedRequests
                            /\ report' = report)]_vars

NonEstimated(completed) ==
    LET Measured(req) == ~req.estimated IN SelectSeq(completed, Measured)

SameBag(s, t) ==
    \A r \in Range(s) \cup Range(t) :
        Cardinality({i \in 1..Len(s) : s[i] = r})
            = Cardinality({i \in 1..Len(t) : t[i] = r})

(* C12 (as claimed): two analyzers given the same records in two orders    *)
(* finish with the same set of completed requests                          *)
C12_OrderIndependence ==
    (pc = "printed" /\ replay.finalized)
        => Range(replay.completedRequests) = Range(completedRequests)

(* C12 (amended): two analyzers given the same records in two orders       *)
(* finish with the same non-estimated requests, each the same number of    *)
(* times; estimated requests depend on the order the timelines were made   *)
C12_MeasuredOrderIndependence ==
    (pc = "printed" /\ replay.finalized)
        => SameBag(NonEstimated(replay.completedRequests),
                   NonEstimated(completedRequests))

(* C12 witness: both analyzers have finished on records of two URLs and    *)
(* differ in their estimated requests, with a paired request in each       *)
C12_Witness ==
    /\ pc = "printed"
    /\ replay.finalized
    /\ Range(replay.completedRequests) # Range(completedRequests)
    /\ Len(replay.urlRequests) = 2
    /\ replay.urlRequests[1].url # urlRequests[1].url
    /\ NonEstimated(completedRequests) # <<>>

(* C13 (as claimed): ingestion never raises: parseJsonLog is never left by *)
(* an exception, so analyzeFile never enters its parseTextLog fallback     *)
C13_IngestionNeverRaises == pc # "parseTextLog"

(* C14 (as claimed): when the printed report covers zero completed         *)
(* requests, parallelEfficiency is reported as 0 and neither it nor the    *)
(* estimated ratio used by the score is NaN or undefined                   *)
C14_ZeroRequestsDegradeToZero ==
    (scorecard.printed /\ report.summary.completedRequests = 0)
        => /\ report.summary.hasParallelEfficiency
           /\ report.summary.parallelEfficiency = 0
           /\ ~scorecard.parallelEfficiency.nan
           /\ ~scorecard.estimatedRatio.nan

WeightedSum(card) ==
    30 * card.avgScore + 35 * card.actualTotalScore + 20 * card.parallelScore
        + 10 * card.countScore + 5 * card.estimatedScore

EmptyTimeline == [startTimes |-> <<>>, endTimes |-> <<>>, unknownTimes |-> <<>>]

TimelineOf(requests, url) ==
    IF HasUrl(requests, url)
    THEN LET urlData == requests[UrlIndex(requests, url)]
         IN [startTimes |-> urlData.startTimes, endTimes |-> urlData.endTimes,
             unknownTimes |-> urlData.unknownTimes]
    ELSE EmptyTimeline

(* C15: a call of addUrlEvent with an invalid URL or an invalid timestamp  *)
(* leaves the event store and the completed-request list unchanged; a call *)
(* with valid arguments leaves the completed-request list and every other  *)
(* timeline unchanged, creates the URL's timeline if absent, and appends   *)
(* the timestamp to exactly one of its three collections, chosen by kind   *)
C15_AddUrlEventFrame ==
    [][lastCall'.calls # lastCall.calls =>
         LET call == lastCall'
             before == TimelineOf(urlRequests, call.url)
             after == TimelineOf(urlRequests', call.url)
         IN /\ completedRequests' = completedRequests
            /\ IF call.url = "" \/ call.timestamp = 0
               THEN urlRequests' = urlRequests
               ELSE /\ HasUrl(urlRequests', call.url)
                    /\ Len(urlRequests') =
                           Len(urlRequests) + (IF HasUrl(urlRequests, call.url) THEN 0 ELSE 1)
                    /\ \A i \in 1..Len(urlRequests) :
                           /\ urlRequests'[i].url = urlRequests[i].url
                           /\ urlRequests[i].url # call.url => urlRequests'[i] = urlRequests[i]
                    /\ after = CASE call.action = "start" ->
                                        [before EXCEPT !.startTimes = Append(@, call.timestamp)]
                                 [] call.action = "end" ->
                                        [before EXCEPT !.endTimes = Append(@, call.timestamp)]
                                 [] OTHER ->
                                        [before EXCEPT !.unknownTimes = Append(@, call.timestamp)]
    ]_vars

(* C15 witness: a call with a valid URL and an invalid timestamp has just  *)
(* been rejected by an analyzer that holds a timeline of that URL, a       *)
(* timeline of another URL and a completed request                         *)
C15_Witness ==
    /\ lastCall.calls = 3
    /\ lastCall.url = UrlApi
    /\ lastCall.timestamp = 0
    /\ Len(urlRequests) = 2
    /\ Len(completedRequests) = 1

Occurrences(s, x) == Cardinality({i \in 1..Len(s) : s[i] = x})

StartsAt(completed, url, startTime) ==
    LET Same(req) == req.url = url /\ req.startTime = startTime
    IN Len(SelectSeq(completed, Same))

(* C16 (as claimed): a timeline that holds k >= 2 start events with the    *)
(* same timestamp gets k requests with that start time from the matcher,   *)
(* whatever its end events; stated for analyzers that already held a       *)
(* completed request when matching began                                   *)
C16_EqualStartsKept ==
    (pc = "printed" /\ preprocessed # <<>>) =>
        \A i \in 1..Len(urlRequests) :
            \A t \in Range(urlRequests[i].startTimes) :
                Occurrences(urlRequests[i].startTimes, t) >= 2
                    => StartsAt(completedRequests, urlRequests[i].url, t)
                           - StartsAt(preprocessed, urlRequests[i].url, t)
                       = Occurrences(urlRequests[i].startTimes, t)

(* greedy pairing by position: each start in turn takes the first end not  *)
(* yet taken that is later than the start and inside the window            *)
RECURSIVE GreedyPairs(_, _, _)
GreedyPairs(startTimes, endTimes, taken) ==
    IF startTimes = <<>> THEN <<>>
    ELSE LET startTime == Head(startTimes)
             free == { j \in 1..Len(endTimes) \ taken :
                         /\ endTimes[j] > startTime
                         /\ endTimes[j] - startTime < MaxRequestDuration }
         IN IF free = {} THEN GreedyPairs(Tail(startTimes), endTimes, taken)
            ELSE LET j == CHOOSE k \in free : \A m \in free : k <= m
                 IN <<[startTime |-> startTime, endTime |-> endTimes[j]]>>
                        \o GreedyPairs(Tail(startTimes), endTimes, taken \cup {j})

PairedOf(completed, url) ==
    LET paired == NonEstimated(RequestsOf(completed, url))
    IN [i \in 1..Len(paired) |->
           [startTime |-> paired[i].startTime, endTime |-> paired[i].endTime]]

(* C17 (as claimed): the paired requests of a URL are those of the greedy  *)
(* pairing of its sorted starts with the earliest end event not yet used;  *)
(* stated for URLs without direct-duration records and without an end      *)
(* exactly 60,000 ms after a start                                         *)
C17_GreedyEarliestUnusedEnd ==
    pc = "printed" =>
        \A i \in 1..Len(urlRequests) :
            LET urlData == urlRequests[i]
            IN (/\ CountOf(urlData.url, preprocessed) = 0
                /\ \A a \in 1..Len(urlData.startTimes), b \in 1..Len(urlData.endTimes) :
                       urlData.endTimes[b] - urlData.startTimes[a] # MaxRequestDuration)
                   => SameBag(PairedOf(completedRequests, urlData.url),
                              GreedyPairs(SortAsc(urlData.startTimes),
                                          SortAsc(urlData.endTimes), {}))

(* C18 (as claimed): every start of a URL that pairing left without a      *)
(* request becomes an estimated request, so the matcher gives the URL one  *)
(* request per start; an estimated request of a type that has no           *)
(* non-estimated request carries the default duration of the type          *)
C18_EveryUnpairedStartEstimated ==
    pc = "printed" =>
        /\ \A i \in 1..Len(urlRequests) :
               MatcherCount(urlRequests[i].url) = Len(urlRequests[i].startTimes)
        /\ \A i \in 1..Len(completedRequests) :
               (/\ completedRequests[i].estimated
                /\ \A j \in 1..Len(completedRequests) :
                       completedRequests[j].type = completedRequests[i].type
                           => completedRequests[j].estimated)
                   => completedRequests[i].duration
                          = DefaultDuration(completedRequests[i].type)

Resolvable(v) == Truthy(v) /\ ParseTimestamp(v) # 0

(* the first of the three sources that is present and readable; 0 if none *)
FirstResolvable(entry) ==
    IF Resolvable(entry.textPayload.timestamp)
    THEN ParseTimestamp(entry.textPayload.timestamp)
    ELSE IF Resolvable(entry.timestamp) THEN ParseTimestamp(entry.timestamp)
    ELSE IF Resolvable(entry.receiveTimestamp) THEN ParseTimestamp(entry.receiveTimestamp)
    ELSE 0

RECURSIVE ResolvedTimestamps(_)
ResolvedTimestamps(entries) ==
    IF entries = <<>> THEN <<>>
    ELSE (IF FirstResolvable(Head(entries)) = 0 THEN <<>>
          ELSE <<FirstResolvable(Head(entries))>>)
         \o ResolvedTimestamps(Tail(entries))

(* C19: the start events stored for records with a nested payload carry,   *)
(* record by record, the first resolvable timestamp in the order payload,  *)
(* outer timestamp, outer receiveTimestamp; a record with no resolvable    *)
(* source stores nothing                                                   *)
C19_TimestampPriority ==
    (pc = "parseJsonLog" /\ \A i \in 1..Len(jsonData) : HasPayload(jsonData[i].textPayload))
        => TimelineOf(urlRequests, UrlApi) =
               [EmptyTimeline EXCEPT !.startTimes = ResolvedTimestamps(jsonData)]

(* C19 witness: two records were read, the first with an unreadable        *)
(* payload timestamp and readable outer fields, the second readable only   *)
(* in receiveTimestamp; the stored starts are the outer timestamp and the  *)
(* receive timestamp                                                       *)
C19_Witness ==
    /\ Len(jsonData) = 2
    /\ jsonData[1].textPayload.timestamp.form = "garbage"
    /\ jsonData[1].timestamp = Iso(2000)
    /\ jsonData[1].receiveTimestamp = Iso(3000)
    /\ jsonData[2].textPayload.timestamp.form = "number"
    /\ jsonData[2].timestamp.form = "garbage"
    /\ jsonData[2].receiveTimestamp = Iso(3000)
    /\ urlRequests[1].startTimes = <<2000, 3000>>

(* C21 (as claimed): parseTimestamp returns the value itself for a bare    *)
(* 13-digit epoch-millisecond input, given as a string or as a number, and *)
(* a failure value for an input that matches no format                     *)
C21_EpochMillisAccepted ==
    \A i \in 1..Len(parseCalls) :
        /\ parseCalls[i].input.form \in {"digits13", "number"}
               => parseCalls[i].result = parseCalls[i].input.ms
        /\ parseCalls[i].input.form = "garbage" => parseCalls[i].result = 0

(* C24: a URL whose timeline has end events and no start event gets no     *)
(* request from finalization, paired or estimated, whatever the other URLs *)
(* of the run hold                                                         *)
C24_OrphanEndsYieldNothing ==
    pc \in {"printed", "done"} =>
        \A i \in 1..Len(urlRequests) :
            (urlRequests[i].startTimes = <<>> /\ urlRequests[i].endTimes # <<>>)
                => MatcherCount(urlRequests[i].url) = 0

(* C24 witness: finalization has run on a timeline with end events only,   *)
(* next to another URL that got a measured and an estimated request        *)
C24_Witness ==
    /\ pc = "printed"
    /\ \E i \in 1..Len(urlRequests) :
           /\ urlRequests[i].startTimes = <<>>
           /\ urlRequests[i].endTimes # <<>>
           /\ CountOf(urlRequests[i].url, completedRequests) = 0
    /\ \E j \in 1..Len(completedRequests) : completedRequests[j].estimated
    /\ \E j \in 1..Len(completedRequests) : ~completedRequests[j].estimated

(* C25: in every report on a non-empty completed-request list,             *)
(* actualTotalTime is the latest end minus the earliest start, it is at    *)
(* least the largest single duration, and that duration is strictly        *)
(* positive, so cumulativeTime and actualTotalTime are positive            *)
C25_WallClockSpanCoversLongest ==
    (report.generated /\ pc \in {"printed", "done"} /\ completedRequests # <<>>) =>
        LET summary == report.summary
            n == Len(completedRequests)
        IN /\ \E i, j \in 1..n :
                  /\ \A k \in 1..n :
                         /\ completedRequests[k].endTime <= completedRequests[i].endTime
                         /\ completedRequests[k].startTime >= completedRequests[j].startTime
                  /\ summary.actualTotalTime =
                         completedRequests[i].endTime - completedRequests[j].startTime
           /\ \A k \in 1..n : summary.actualTotalTime >= completedRequests[k].duration
           /\ \E k \in 1..n : completedRequests[k].duration = summary.maxTime
           /\ \A k \in 1..n : completedRequests[k].duration <= summary.maxTime
           /\ summary.maxTime > 0
           /\ summary.cumulativeTime > 0
           /\ summary.actualTotalTime > 0

(* C25 witness: a report on overlapping requests, one of them estimated,   *)
(* whose wall-clock span is longer than the longest request and shorter    *)
(* than the cumulative time                                                *)
C25_Witness ==
    /\ pc = "printed"
    /\ report.summary.completedRequests >= 2
    /\ report.summary.estimatedRequests >= 1
    /\ report.summary.actualTotalTime > report.summary.maxTime
    /\ report.summary.actualTotalTime < report.summary.cumulativeTime

Least(S) == CHOOSE k \in S : \A m \in S : k <= m

(* the url, timestamp and duration a record exposes: those of its nested   *)
(* payload when it has one, else the first url field that is set, the      *)
(* first time field that is set, and duration, loadTime or responseTime    *)
(* in this order                                                           *)
Exposed(entry) ==
    IF HasPayload(entry.textPayload)
    THEN [url |-> entry.textPayload.url, timestamp |-> FirstResolvable(entry),
          duration |-> entry.textPayload.duration]
    ELSE LET urls == {k \in 1..Len(UrlFields) : entry[UrlFields[k]] # ""}
             times == {k \in 1..Len(TimeFields) : Truthy(entry[TimeFields[k]])}
         IN [url |-> IF urls = {} THEN "" ELSE entry[UrlFields[Least(urls)]],
             timestamp |-> IF times = {} THEN 0
                           ELSE ParseTimestamp(entry[TimeFields[Least(times)]]),
             duration |-> IF entry.duration # 0 THEN entry.duration
                          ELSE IF entry.loadTime # 0 THEN entry.loadTime
                          ELSE entry.responseTime]

C27_TopResourcesRanked ==
    report.generated =>
        LET top == report.topResources
            n == Len(completedRequests)
            k == IF report.topN < n THEN report.topN ELSE n
        IN /\ Len(top) = k
           /\ \A i \in 1..Len(top) : top[i].rank = i
           /\ \A i \in 1..Len(top) - 1 : top[i].duration >= top[i + 1].duration
           /\ \E chosen \in SUBSET (1..n) :
                  /\ Cardinality(chosen) = Len(top)
                  /\ SameBag([i \in 1..Len(top) |-> [url |-> top[i].url,
                                                     duration |-> top[i].duration]],
                             LET kept == SelectSeq([i \in 1..n |-> i],
                                                   LAMBDA i : i \in chosen)
                             IN [i \in 1..Len(kept) |->
                                    [url |-> completedRequests[kept[i]].url,
                                     duration |-> completedRequests[kept[i]].duration]])
                  /\ \A j \in (1..n) \ chosen :
                         Len(top) > 0 => completedRequests[j].duration
                                             <= top[Len(top)].duration

(* C27 witness: a report of the two longest of three requests, the one     *)
(* left out being shorter than the second                                  *)
C27_Witness ==
    /\ report.generated
    /\ report.topN = 2
    /\ Len(completedRequests) = 3
    /\ Len(report.topResources) = 2
    /\ report.topResources[1].duration > report.topResources[2].duration
    /\ \E j \in 1..3 : completedRequests[j].duration < report.topResources[2].duration

(* C28: after one matching pass, every non-estimated request of a URL      *)
(* (taken without direct-duration records) starts at one of the URL's      *)
(* start events and ends at one of its end events, lasts more than 0 and   *)
(* less than 60000 ms, and no end event serves more than one request       *)
C28_PairsUseOwnEvents ==
    pc = "printed" =>
        \A i \in 1..Len(urlRequests) :
            LET urlData == urlRequests[i]
                paired == PairedOf(completedRequests, urlData.url)
            IN CountOf(urlData.url, preprocessed) = 0
                   => /\ \A k \in 1..Len(paired) :
                             /\ paired[k].startTime \in Range(urlData.startTimes)
                             /\ paired[k].endTime \in Range(urlData.endTimes)
                             /\ paired[k].endTime - paired[k].startTime > 0
                             /\ paired[k].endTime - paired[k].startTime < MaxRequestDuration
                      /\ \A e \in Range(urlData.endTimes) :
                             Cardinality({k \in 1..Len(paired) : paired[k].endTime = e})
                                 <= Occurrences(urlData.endTimes, e)
                      /\ \A t \in Range(urlData.startTimes) :
                             Cardinality({k \in 1..Len(paired) : paired[k].startTime = t})
                                 <= Occurrences(urlData.startTimes, t)

(* C28 witness: one pass has paired two starts of a URL with two ends,     *)
(* the end of the first pair being the start of the second                 *)
C28_Witness ==
    /\ pc = "printed"
    /\ Len(urlRequests) = 1
    /\ preprocessed = <<>>
    /\ Len(urlRequests[1].startTimes) = 2
    /\ Len(urlRequests[1].endTimes) = 2
    /\ Len(PairedOf(completedRequests, urlRequests[1].url)) = 2
    /\ urlRequests[1].startTimes[2] = urlRequests[1].endTimes[1]

-----------------------------------------------------------------------------
(* Type statistics of a report over durations that are not whole           *)
(* milliseconds (SpecTypeStats): all times are counted in half             *)
(* milliseconds, which doubles add without rounding error                  *)

MaxTypedRequests == 3

TypeTicks == 2

(* durations of direct-duration records: 0.5 ms, 1.5 ms, 300 ms, 500.5 ms *)
TypedDurations == {1, 3, 600, 1001}

TypedStart == 2000

(* the requests finalizeAnalysis can leave: direct-duration records of any *)
(* positive duration, and estimated requests of the type's default         *)
(* duration, a whole number of milliseconds                                *)
TypedRequests ==
    {[url |-> url, startTime |-> TypedStart, endTime |-> TypedStart + d, duration |-> d,
      type |-> GetResourceType(url), estimated |-> FALSE] :
         url \in PageUrls, d \in TypedDurations}
    \cup
    {[url |-> url, startTime |-> TypedStart,
      endTime |-> TypedStart + TypeTicks * DefaultDuration(GetResourceType(url)),
      duration |-> TypeTicks * DefaultDuration(GetResourceType(url)),
      type |-> GetResourceType(url), estimated |-> TRUE] : url \in PageUrls}

(* completedRequests as finalizeAnalysis leaves it: sorted by descending   *)
(* duration                                                                *)
InitTypeStats ==
    /\ urlRequests = <<>>
    /\ \E n \in 0..MaxTypedRequests :
           /\ completedRequests \in [1..n -> TypedRequests]
           /\ \A i \in 1..(n - 1) :
                  completedRequests[i].duration >= completedRequests[i + 1].duration
    /\ pc = "parseJsonLog"
    /\ jsonData = <<>>
    /\ preprocessed = <<>>
    /\ finalizeRuns = 1
    /\ report = NoReport
    /\ replay = NoReplay
    /\ scorecard = NoScorecard
    /\ lastCall = NoCall
    /\ parseCalls = <<>>
    /\ results = <<>>
    /\ requestStartTimes = [url \in PageUrls |-> 0]
    /\ network = <<>>
    /\ browser = NoBrowser
    /\ batch = NoBatch

(* generateSummary on durations counted in 1/ticks of a millisecond *)
GenerateSummaryIn(requests, completed, ticks) ==
    IF Len(completed) = 0 THEN GenerateSummary(requests, completed)
    ELSE [GenerateSummary(requests, completed) EXCEPT
              !.averageTime = ticks * MathRound(SumSeq(Durations(completed)),
                                                ticks * Len(completed))]

(* generateReport from its call of generateSummary on *)
GenerateTypedReport ==
    /\ pc = "parseJsonLog"
    /\ report' = [BuildReport(urlRequests, completedRequests) EXCEPT
                      !.summary = GenerateSummaryIn(urlRequests, completedRequests, TypeTicks),
                      !.typeStats = GenerateTypeStatsIn(completedRequests, TypeTicks)]
    /\ pc' = "generateReport"
    /\ UNCHANGED <<urlRequests, completedRequests, jsonData, preprocessed, finalizeRuns,
                   replay, scorecard, lastCall, parseCalls, results, requestStartTimes, network, browser, batch>>

NextTypeStats == GenerateTypedReport

SpecTypeStats == InitTypeStats /\ [][NextTypeStats]_vars

StatSum(stats, field) == SumSeq([i \in 1..Len(stats) |-> stats[i][field]])

(* the per-type counts, total times and estimated counts add up to the     *)
(* summary's completedRequests, cumulativeTime and estimatedRequests       *)
TypeStatsPartition ==
    /\ StatSum(report.typeStats, "count") = Len(completedRequests)
    /\ StatSum(report.typeStats, "count") = report.summary.completedRequests
    /\ StatSum(report.typeStats, "totalTime") = report.summary.cumulativeTime
    /\ StatSum(report.typeStats, "estimatedCount") = report.summary.estimatedRequests
    /\ \A i, j \in 1..Len(report.typeStats) :
           report.typeStats[i].type = report.typeStats[j].type => i = j

(* C29 (as claimed): in every generated report the per-type statistics     *)
(* partition the completed requests, and for each type                     *)
(* minTime <= avgTime <= maxTime                                           *)
C29_TypeStatsPartitionMinAvgMax ==
    report.generated =>
        /\ TypeStatsPartition
        /\ \A i \in 1..Len(report.typeStats) :
               /\ report.typeStats[i].minTime <= report.typeStats[i].avgTime
               /\ report.typeStats[i].avgTime <= report.typeStats[i].maxTime

(* C29 (amended): in every generated report the per-type statistics        *)
(* partition the completed requests; for each type avgTime is a whole      *)
(* number of milliseconds between minTime rounded down and maxTime rounded *)
(* up, and between minTime and maxTime when the type's durations are whole *)
(* milliseconds                                                            *)
C29_TypeStatsPartitionRoundedAvg ==
    report.generated =>
        /\ TypeStatsPartition
        /\ \A i \in 1..Len(report.typeStats) :
               LET stat == report.typeStats[i]
                   OfType(req) == req.type = stat.type
                   durations == Durations(SelectSeq(completedRequests, OfType))
               IN /\ stat.avgTime % TypeTicks = 0
                  /\ TypeTicks * (stat.minTime \div TypeTicks) <= stat.avgTime
                  /\ stat.avgTime <= TypeTicks * ((stat.maxTime + TypeTicks - 1) \div TypeTicks)
                  /\ (\A k \in 1..Len(durations) : durations[k] % TypeTicks = 0)
                         => stat.minTime <= stat.avgTime /\ stat.avgTime <= stat.maxTime

(* C29 witness: a report over three requests of two types, one estimated   *)
(* and one lasting half a millisecond, whose type has an average of 1 ms   *)
C29_Witness ==
    /\ report.generated
    /\ Len(completedRequests) = 3
    /\ Len(report.typeStats) = 2
    /\ report.summary.estimatedRequests = 1
    /\ \E i \in 1..Len(report.typeStats) :
           /\ report.typeStats[i].maxTime = 1
           /\ report.typeStats[i].avgTime = TypeTicks

-----------------------------------------------------------------------------
(* Website tester, browser mode: the request and response callbacks of one *)
(* page (SpecPage). browser.requests lists the requests the page has sent  *)
(* with the time of their request event; a request is named by its index.  *)
(* browser.owner, browser.recorded and browser.taken are history: the      *)
(* request whose event wrote the start record a URL has now, the request   *)
(* each entry of network answers, and the requests whose start record was  *)
(* deleted by the handler of another request's response                    *)

MaxClock == 2

MaxPageRequests == 3

(* Date.now() moves on between two callbacks *)
Tick ==
    /\ browser.clock < MaxClock
    /\ browser' = [browser EXCEPT !.clock = @ + 1]
    /\ UNCHANGED <<urlRequests, completedRequests, pc, jsonData, preprocessed, finalizeRuns,
                   report, replay, scorecard, lastCall, parseCalls, results,
                   requestStartTimes, network, batch>>

(* page.on('request'): requestStartTimes.set(request.url(), {startTime: Date.now(), ...}) *)
OnRequest(url) ==
    /\ Len(browser.requests) < MaxPageRequests
    /\ requestStartTimes' = [requestStartTimes EXCEPT ![url] = browser.clock]
    /\ browser' = [browser EXCEPT
                       !.requests = Append(@, [url |-> url, startTime |-> browser.clock]),
                       !.pending = @ \cup {Len(browser.requests) + 1},
                       !.owner[url] = Len(browser.requests) + 1]
    /\ UNCHANGED <<urlRequests, completedRequests, pc, jsonData, preprocessed, finalizeRuns,
                   report, replay, scorecard, lastCall, parseCalls, results, network, batch>>

(* the response handler up to its await: responseTime, requestInfo and     *)
(* loadTime                                                                *)
LoadTime(startTimes, url, responseTime) ==
    IF startTimes[url] # 0 THEN responseTime - startTimes[url] ELSE 0

(* the response handler after its await: testResult.network.push and       *)
(* requestStartTimes.delete(requestUrl), as the new <<requestStartTimes,   *)
(* network, browser>>; testResult.resourceTiming receives the same entry   *)
(* when its loadTime is positive                                           *)
RecordResponse(request, responseTime, loadTime) ==
    LET url == browser.requests[request].url
        other == requestStartTimes[url] # 0 /\ browser.owner[url] # request
    IN <<[requestStartTimes EXCEPT ![url] = 0],
         Append(network, [url |-> url, loadTime |-> loadTime, timestamp |-> responseTime]),
         [browser EXCEPT !.recorded = Append(@, request),
                         !.owner[url] = 0,
                         !.taken = IF other THEN @ \cup {browser.owner[url]} ELSE @,
                         !.pending = @ \ {request},
                         !.suspended = {h \in @ : h.request # request}]>>

(* page.on('response') for a response that carries its content-length or  *)
(* is not ok: the handler runs to its end                                  *)
OnResponse(request) ==
    /\ request \in browser.pending
    /\ LET url == browser.requests[request].url
           new == RecordResponse(request, browser.clock,
                                 LoadTime(requestStartTimes, url, browser.clock))
       IN /\ requestStartTimes' = new[1]
          /\ network' = new[2]
          /\ browser' = new[3]
    /\ UNCHANGED <<urlRequests, completedRequests, pc, jsonData, preprocessed, finalizeRuns,
                   report, replay, scorecard, lastCall, parseCalls, results, batch>>

(* page.on('response') for an ok response without content-length: the     *)
(* handler stops at await response.buffer()                                *)
OnResponseAwaitBuffer(request) ==
    /\ request \in browser.pending
    /\ LET url == browser.requests[request].url
       IN browser' = [browser EXCEPT
                          !.pending = @ \ {request},
                          !.suspended = @ \cup
                              {[request |-> request, responseTime |-> browser.clock,
                                loadTime |-> LoadTime(requestStartTimes, url, browser.clock)]}]
    /\ UNCHANGED <<urlRequests, completedRequests, pc, jsonData, preprocessed, finalizeRuns,
                   report, replay, scorecard, lastCall, parseCalls, results,
                   requestStartTimes, network, batch>>

(* the body has been read (or could not be): the handler goes on *)
OnBufferRead(h) ==
    /\ h \in browser.suspended
    /\ LET new == RecordResponse(h.request, h.responseTime, h.loadTime)
       IN /\ requestStartTimes' = new[1]
          /\ network' = new[2]
          /\ browser' = new[3]
    /\ UNCHANGED <<urlRequests, completedRequests, pc, jsonData, preprocessed, finalizeRuns,
                   report, replay, scorecard, lastCall, parseCalls, results, batch>>

NextPage ==
    \/ Tick
    \/ \E url \in PageUrls : OnRequest(url)
    \/ \E request \in 1..MaxPageRequests : OnResponse(request)
    \/ \E request \in 1..MaxPageRequests : OnResponseAwaitBuffer(request)
    \/ \E h \in browser.suspended : OnBufferRead(h)

SpecPage == Init /\ [][NextPage]_vars

(* C22 (as claimed): under every interleaving of the request and response  *)
(* callbacks, every recorded response has a load time equal to its         *)
(* response time minus the start time of its own request, and no request's *)
(* start record is deleted by the handler of another request's response    *)
C22_ResponsesTimedAgainstOwnRequest ==
    /\ Len(network) = Len(browser.recorded)
    /\ \A k \in 1..Len(network) :
           network[k].loadTime
               = network[k].timestamp - browser.requests[browser.recorded[k]].startTime
    /\ browser.taken = {}

-----------------------------------------------------------------------------
(* Website tester: testMultipleWebsites over testWithCurl and testWebsite  *)
(* (SpecTester). An entry of this.results keeps the fields the statuses    *)
(* depend on; isHtmlContent and saveHtml are kept beside them as history   *)

MaxBatchUrls == 2

StatusCodes == {200, 304, 404}

(* testWithCurl from the parsed response on: the final status and the     *)
(* type of the entry pushed to testResult.errors. htmlFile is set when the *)
(* page has been written; the throw of the last branch is caught and       *)
(* gives failed                                                            *)
CurlStatus(statusCode, isHtmlContent, htmlFile) ==
    IF statusCode >= 200 /\ statusCode < 300
    THEN [status |-> "success", error |-> "none"]
    ELSE IF isHtmlContent /\ htmlFile
    THEN [status |-> "partial_success", error |-> "http_status_warning"]
    ELSE [status |-> "failed", error |-> "http_status"]

(* the testResult of testWithCurl. execFails: execAsync(curlCommand)       *)
(* rejects and the result keeps its initial fields; writeFails:            *)
(* ensureDirectory or fs.writeFile rejects                                 *)
CurlResult(url, execFails, statusCode, isHtmlContent, saveHtml, writeFails) ==
    IF execFails
    THEN [url |-> url, method |-> "curl", status |-> "failed", error |-> "exec",
          statusCode |-> 0, isHtmlContent |-> FALSE, htmlAnalysis |-> FALSE,
          htmlFile |-> FALSE, saveHtml |-> saveHtml]
    ELSE IF isHtmlContent /\ saveHtml /\ writeFails
    THEN [url |-> url, method |-> "curl", status |-> "failed", error |-> "write",
          statusCode |-> statusCode, isHtmlContent |-> TRUE, htmlAnalysis |-> TRUE,
          htmlFile |-> FALSE, saveHtml |-> saveHtml]
    ELSE LET htmlFile == isHtmlContent /\ saveHtml
             final == CurlStatus(statusCode, isHtmlContent, htmlFile)
         IN [url |-> url, method |-> "curl", status |-> final.status,
             error |-> final.error, statusCode |-> statusCode,
             isHtmlContent |-> isHtmlContent, htmlAnalysis |-> isHtmlContent,
             htmlFile |-> htmlFile, saveHtml |-> saveHtml]

(* where the try block of testWebsite throws, if it does *)
ThrowPoints == {"none", "newPage", "goto", "screenshot"}

(* the testResult of testWebsite: success at the end of the try block,     *)
(* failed in its catch; httpStatusCode is set after page.goto and the page *)
(* source is read before the screenshot                                    *)
PageResult(url, thrownAt, statusCode, saveHtml) ==
    LET loaded == thrownAt \in {"none", "screenshot"}
    IN [url |-> url, method |-> "puppeteer",
        status |-> IF thrownAt = "none" THEN "success" ELSE "failed",
        error |-> IF thrownAt = "none" THEN "none" ELSE "test_error",
        statusCode |-> IF loaded THEN statusCode ELSE 0,
        isHtmlContent |-> loaded, htmlAnalysis |-> loaded /\ saveHtml,
        htmlFile |-> loaded /\ saveHtml, saveHtml |-> saveHtml]

(* testMultipleWebsites(urls, options) up to its loop *)
TestMultipleWebsites(urls, method, saveHtml) ==
    /\ batch.pc = "idle"
    /\ batch' = [batch EXCEPT !.pc = "loop", !.urls = urls, !.method = method,
                              !.saveHtml = saveHtml, !.i = 1, !.results = <<>>]
    /\ UNCHANGED <<urlRequests, completedRequests, pc, jsonData, preprocessed, finalizeRuns,
                   report, replay, scorecard, lastCall, parseCalls, results,
                   requestStartTimes, network, browser>>

(* one turn of the loop with options.method === 'curl': testWithCurl runs  *)
(* to its end, pushes its result and returns it                            *)
TestWithCurl(execFails, statusCode, isHtmlContent, writeFails) ==
    /\ batch.pc = "loop"
    /\ batch.i <= Len(batch.urls)
    /\ batch.method = "curl"
    /\ LET testResult == CurlResult(batch.urls[batch.i], execFails, statusCode,
                                    isHtmlContent, batch.saveHtml, writeFails)
       IN /\ results' = Append(results, testResult)
          /\ batch' = [batch EXCEPT !.results = Append(@, testResult), !.i = @ + 1,
                                    !.calls = @ + 1]
    /\ UNCHANGED <<urlRequests, completedRequests, pc, jsonData, preprocessed, finalizeRuns,
                   report, replay, scorecard, lastCall, parseCalls, requestStartTimes,
                   network, browser>>

(* one turn of the loop with another method: testWebsite. closeFails:      *)
(* page.close() in the finally block rejects, this.results.push is not     *)
(* reached and the rejection leaves testWebsite and testMultipleWebsites;  *)
(* without a page (newPage threw) close is not called                      *)
TestWebsite(thrownAt, statusCode, closeFails) ==
    /\ batch.pc = "loop"
    /\ batch.i <= Len(batch.urls)
    /\ batch.method # "curl"
    /\ LET testResult == PageResult(batch.urls[batch.i], thrownAt, statusCode,
                                    batch.saveHtml)
       IN IF thrownAt # "newPage" /\ closeFails
          THEN /\ results' = results
               /\ batch' = [batch EXCEPT !.pc = "raised", !.calls = @ + 1]
          ELSE /\ results' = Append(results, testResult)
               /\ batch' = [batch EXCEPT !.results = Append(@, testResult), !.i = @ + 1,
                                         !.calls = @ + 1]
    /\ UNCHANGED <<urlRequests, completedRequests, pc, jsonData, preprocessed, finalizeRuns,
                   report, replay, scorecard, lastCall, parseCalls, requestStartTimes,
                   network, browser>>

(* return results *)
ReturnResults ==
    /\ batch.pc = "loop"
    /\ batch.i > Len(batch.urls)
    /\ batch' = [batch EXCEPT !.pc = "returned"]
    /\ UNCHANGED <<urlRequests, completedRequests, pc, jsonData, preprocessed, finalizeRuns,
                   report, replay, scorecard, lastCall, parseCalls, results,
                   requestStartTimes, network, browser>>

BatchUrls ==
    UNION {[1..n -> PageUrls] : n \in 0..MaxBatchUrls}

NextTester ==
    \/ \E urls \in BatchUrls, method \in {"curl", "puppeteer"}, saveHtml \in BOOLEAN :
           TestMultipleWebsites(urls, method, saveHtml)
    \/ \E execFails, isHtmlContent, writeFails \in BOOLEAN, statusCode \in StatusCodes :
           TestWithCurl(execFails, statusCode, isHtmlContent, writeFails)
    \/ \E thrownAt \in ThrowPoints, closeFails \in BOOLEAN, statusCode \in StatusCodes :
           TestWebsite(thrownAt, statusCode, closeFails)
    \/ ReturnResults

SpecTester == Init /\ [][NextTester]_vars

(* C23 (as claimed): in curl mode a response with a non-2xx status whose   *)
(* body is recognised as HTML ends as partial_success and keeps its HTML   *)
(* analysis, whatever the options, saveHtml = false included; only a       *)
(* non-2xx response without HTML content ends as failed. Calls in which    *)
(* curl itself or the file system failed are left aside                    *)
C23_HtmlOnErrorStatusIsPartialSuccess ==
    \A k \in 1..Len(results) :
        LET testResult == results[k]
            non2xx == testResult.statusCode < 200 \/ testResult.statusCode >= 300
        IN (testResult.method = "curl" /\ testResult.error \notin {"exec", "write"})
               => /\ (non2xx /\ testResult.isHtmlContent)
                         => testResult.status = "partial_success" /\ testResult.htmlAnalysis
                  /\ testResult.status = "failed" => (non2xx /\ ~testResult.isHtmlContent)

Statuses == {"success", "partial_success", "failed"}

(* C30 (as claimed): every call of testWebsite or testWithCurl, whether    *)
(* the test succeeds or throws, appends exactly one result to this.results *)
(* and that result's status is success, partial_success or failed;         *)
(* testMultipleWebsites runs the URLs in input order and returns one       *)
(* result per URL in that order                                            *)
C30_OneResultPerCall ==
    /\ Len(results) = batch.calls
    /\ \A k \in 1..Len(results) : results[k].status \in Statuses
    /\ batch.pc \in {"loop", "returned"} =>
           /\ Len(batch.results) = batch.i - 1
           /\ \A k \in 1..Len(batch.results) : batch.results[k].url = batch.urls[k]
    /\ batch.pc = "returned" => Len(batch.results) = Len(batch.urls)
    /\ batch.pc # "raised"

=============================================================================
